---------------------------- MODULE Spec2Model ----------------------------
(***************************************************************************)
(* The APU glue of the SNES core (function Apu, src/README.md 118-397):    *)
(* its RAM, the CPU<->SPC ports, the control register, the three timers    *)
(* and getState / setState.                                                *)
(*                                                                         *)
(* `apu' is the Apu object (`this').  The 64 KB RAM is followed at the     *)
(* addresses of RamAdrs only: a write elsewhere changes a byte no read of  *)
(* the model looks at.  Spc and Dsp are not part of the sources at hand;   *)
(* they are kept as the little the Apu code asks of them.                  *)
(*                                                                         *)
(* Further down: EmulatorService (src/src/emulatorService.ts) with its     *)
(* async calls on the event loop (`svc'), and detectHiRom                  *)
(* (src/unnamed/part_001 759-783) on ROM images (`rom').                   *)
(***************************************************************************)
EXTENDS Integers, Sequences, FiniteSets, TLC

VARIABLES
  apu,      \* the Apu object: every field of `this'
  slots,    \* the snapshots the caller holds (slot -> object of getState)
  savedAt,  \* history: the Apu as it was when slots[k] was taken
  pre,      \* history: the Apu just before the last call
  last,     \* history: the last call, its arguments and its result
  calls,    \* the number of calls made so far, Apu.cycle() not counted
  drv,      \* the scenario a specification runs: the timer run of SpecTimer
            \* and SpecWrap, the number of calls of SpecService and SpecPress
  svc,      \* the EmulatorService, its emulator and the async calls in flight
  rom,      \* a ROM image handed to detectHiRom, and what it returned
  audio,    \* the DSP's sample ring buffer and the buffers of Apu.setSamples
  boot,     \* the stdio server process while it starts
  sync,     \* WsSync: the WebSocket server and its client sockets
  page,     \* the browser page of /emulator: its pad, its input tracking,
            \* its timers and its socket
  sse,      \* the SSE server: its transports table and its sessions
  ring      \* the page's audio ring buffer, its producer and its consumer

webVars == <<audio, boot, sync, page, sse, ring>>
vars == <<apu, slots, savedAt, pre, last, calls, drv, svc, rom, webVars>>
apuVars == <<apu, slots, savedAt, pre, last, calls, drv>>
NoPage == sse = "unused" /\ ring = "unused"
NoWeb ==
  /\ audio = "unused" /\ boot = "unused" /\ sync = "unused" /\ page = "unused"
  /\ NoPage

---------------------------------------------------------------------------
(* Bounds of the exploration.                                              *)

MaxCycles == 2      \* Apu.cycle() calls from reset (SpecPorts, SpecState)
MaxCalls == 3       \* calls other than Apu.cycle() (SpecPorts)
MaxStateCalls == 2  \* calls that change the Apu, getState and the setState of
                    \* a slot not counted (SpecState)
MaxRegCycles == 17  \* Apu.cycle() calls from reset (SpecRegs)
MaxTarget == 2      \* timer targets 0..MaxTarget (SpecTimer)
MaxWrapTarget == 1  \* timer targets 1..MaxWrapTarget (SpecWrap)
MaxRatioCycles == 65  \* Apu.cycle() calls from reset (SpecRatio)
MaxSvcCalls == 2    \* calls of the service that step frames, loadRom not
                    \* counted (SpecService)
MaxPressCalls == 1  \* the same (SpecPress)
MaxLoads == 1       \* loadRom calls that load a ROM (SpecService, SpecPress)

(* Program constants.                                                      *)
Timer1Base == 128
Timer2Base == 128
Timer3Base == 16
PPU_SYNC_INTERVAL == 60

Bit(v, b) == ((v \div (2 ^ b)) % 2) = 1

---------------------------------------------------------------------------
(* The memory the model follows.                                           *)

RamAdrs == {248, 512, 65472, 65535} \* 0x00F8, 0x0200, 0xFFC0, 0xFFFF
WritePortIdx == 0..3
ReadPortIdx == 0..5
DspRegs == {0, 127}                 \* DSP registers followed

bootRom ==
  << 205, 239, 189, 232,   0, 198,  29, 208, 252, 143, 170, 244, 143, 187, 245, 120,
     204, 244, 208, 251,  47,  25, 235, 244, 208, 252, 126, 244, 208,  11, 228, 245,
     203, 244, 215,   0, 252, 208, 243, 171,   1,  16, 239, 126, 244,  16, 235, 186,
     246, 218,   0, 186, 244, 196, 244, 221,  93, 208, 219,  31,   0,   0, 192, 255 >>

ScalarFields ==
  { "dspAdr", "dspRomReadable", "cycles",
    "timer1int", "timer1div", "timer1target", "timer1counter", "timer1enabled",
    "timer2int", "timer2div", "timer2target", "timer2counter", "timer2enabled",
    "timer3int", "timer3div", "timer3target", "timer3counter", "timer3enabled" }
ArrayFields == {"ram", "spcWritePorts", "spcReadPorts"}
ObjectFields == {"spc", "dsp"}
StateFields == ArrayFields \cup ScalarFields \cup ObjectFields

---------------------------------------------------------------------------
(* Spc and Dsp: what Apu calls.                                            *)

SpcReset == [cycles |-> 0]
SpcCycle(spc) == [spc EXCEPT !.cycles = @ + 1]
SpcGetState(spc) == spc
SpcSetState(spc, s) == s

DspReset == [cycles |-> 0, ram |-> [r \in DspRegs |-> 0]]
DspCycle(dsp) == [dsp EXCEPT !.cycles = @ + 1]
DspRead(dsp, adr) == IF adr \in DspRegs THEN dsp.ram[adr] ELSE 0
DspWrite(dsp, adr, value) ==
  IF adr \in DspRegs THEN [dsp EXCEPT !.ram[adr] = value] ELSE dsp
DspGetState(dsp) == dsp
DspSetState(dsp, s) == s

---------------------------------------------------------------------------
(* Apu.reset, on the object as the constructor made it (bootRom is set    *)
(* there, once).                                                           *)

Reset ==
  [ bootRom |-> bootRom,
    ram |-> [a \in RamAdrs |-> 0],
    spcWritePorts |-> [i \in WritePortIdx |-> 0],
    spcReadPorts |-> [i \in ReadPortIdx |-> 0],
    dspAdr |-> 0, dspRomReadable |-> TRUE,
    spc |-> SpcReset, dsp |-> DspReset,
    cycles |-> 0,
    timer1int |-> 0, timer1div |-> 0, timer1target |-> 0,
    timer1counter |-> 0, timer1enabled |-> FALSE,
    timer2int |-> 0, timer2div |-> 0, timer2target |-> 0,
    timer2counter |-> 0, timer2enabled |-> FALSE,
    timer3int |-> 0, timer3div |-> 0, timer3target |-> 0,
    timer3counter |-> 0, timer3enabled |-> FALSE,
    undef |-> {} ]     \* the scalar fields that hold `undefined'

---------------------------------------------------------------------------
(* Apu.getState.  An array of the snapshot is an object of its own,        *)
(* holding the elements Array.from copied (shared = FALSE); a reference to *)
(* a live typed array of the Apu would be shared = TRUE, and what it holds *)
(* is then whatever the live array holds.  `missing' are the properties    *)
(* the object does not have: none, for an object getState built.           *)

ArrayShared(a, name) == [of |-> name, shared |-> TRUE, elems |-> a[name]]

(* Array.from(this.<name>) *)
ArrayFrom(a, name) == [of |-> name, shared |-> FALSE, elems |-> a[name]]

Deref(ref, a) == IF ref.shared THEN a[ref.of] ELSE ref.elems

GetState(a) ==
  [ ram |-> ArrayFrom(a, "ram"),
    spcWritePorts |-> ArrayFrom(a, "spcWritePorts"),
    spcReadPorts |-> ArrayFrom(a, "spcReadPorts"),
    dspAdr |-> a.dspAdr, dspRomReadable |-> a.dspRomReadable,
    cycles |-> a.cycles,
    timer1int |-> a.timer1int, timer1div |-> a.timer1div,
    timer1target |-> a.timer1target, timer1counter |-> a.timer1counter,
    timer1enabled |-> a.timer1enabled,
    timer2int |-> a.timer2int, timer2div |-> a.timer2div,
    timer2target |-> a.timer2target, timer2counter |-> a.timer2counter,
    timer2enabled |-> a.timer2enabled,
    timer3int |-> a.timer3int, timer3div |-> a.timer3div,
    timer3target |-> a.timer3target, timer3counter |-> a.timer3counter,
    timer3enabled |-> a.timer3enabled,
    spc |-> SpcGetState(a.spc),
    dsp |-> DspGetState(a.dsp),
    missing |-> {} ]

---------------------------------------------------------------------------
(* Apu.setState.  The statements run in order; reading .length of a        *)
(* missing array, or handing a missing object to Spc / Dsp, throws and     *)
(* leaves what the earlier statements wrote.  A missing scalar is read as  *)
(* `undefined' and assigned.                                               *)

CopyIntoFromOne(dst, src) ==
  [i \in DOMAIN dst |-> IF i \in DOMAIN src /\ i >= 1 THEN src[i] ELSE dst[i]]

(* for(i = 0; i < src.length; i++) dst[i] = src[i] *)
CopyInto(dst, src) ==
  [i \in DOMAIN dst |-> IF i \in DOMAIN src THEN src[i] ELSE dst[i]]

SetScalars(a, s) ==
  [a EXCEPT
    !.dspAdr = s.dspAdr, !.dspRomReadable = s.dspRomReadable,
    !.cycles = s.cycles,
    !.timer1int = s.timer1int, !.timer1div = s.timer1div,
    !.timer1target = s.timer1target, !.timer1counter = s.timer1counter,
    !.timer1enabled = s.timer1enabled,
    !.timer2int = s.timer2int, !.timer2div = s.timer2div,
    !.timer2target = s.timer2target, !.timer2counter = s.timer2counter,
    !.timer2enabled = s.timer2enabled,
    !.timer3int = s.timer3int, !.timer3div = s.timer3div,
    !.timer3target = s.timer3target, !.timer3counter = s.timer3counter,
    !.timer3enabled = s.timer3enabled,
    !.undef = s.missing \cap ScalarFields]

Thrown(a) == [apu |-> a, err |-> TRUE]
Returned(a) == [apu |-> a, err |-> FALSE]

SetState(a, s) ==
  IF "ram" \in s.missing THEN Thrown(a) ELSE
  LET a1 == [a EXCEPT !.ram = CopyInto(@, Deref(s.ram, a))] IN
  IF "spcWritePorts" \in s.missing THEN Thrown(a1) ELSE
  LET a2 == [a1 EXCEPT !.spcWritePorts = CopyInto(@, Deref(s.spcWritePorts, a1))] IN
  IF "spcReadPorts" \in s.missing THEN Thrown(a2) ELSE
  LET a3 == [a2 EXCEPT !.spcReadPorts = CopyInto(@, Deref(s.spcReadPorts, a2))] IN
  LET a4 == SetScalars(a3, s) IN
  IF "spc" \in s.missing THEN Thrown(a4) ELSE
  LET a5 == [a4 EXCEPT !.spc = SpcSetState(@, s.spc)] IN
  IF "dsp" \in s.missing THEN Thrown(a5) ELSE
  Returned([a5 EXCEPT !.dsp = DspSetState(@, s.dsp)])

---------------------------------------------------------------------------
(* Apu.cycle                                                               *)

CycleDspLate(a) ==
  IF a.cycles % 32 = 31 THEN [a EXCEPT !.dsp = DspCycle(@)] ELSE a

(* if((this.cycles & 0x1f) === 0) this.dsp.cycle() *)
CycleDsp(a) ==
  IF a.cycles % 32 = 0 THEN [a EXCEPT !.dsp = DspCycle(@)] ELSE a

TickCompareFirst(div, target, counter) ==
  IF div = target
  THEN [div |-> 0, counter |-> (counter + 1) % 16]
  ELSE [div |-> (div + 1) % 256, counter |-> counter]

TickSaturating(div, target, counter) ==
  LET d == (div + 1) % 256 IN
  IF d = target
  THEN [div |-> 0, counter |-> IF counter < 15 THEN counter + 1 ELSE 15]
  ELSE [div |-> d, counter |-> counter]

(* One step of an enabled timer's divider (the same statements for the     *)
(* three timers): div++; div &= 0xff; on div === target, div = 0 and       *)
(* counter++; counter &= 0xf.                                              *)
Tick(div, target, counter) ==
  LET d == (div + 1) % 256 IN
  IF d = target
  THEN [div |-> 0, counter |-> (counter + 1) % 16]
  ELSE [div |-> d, counter |-> counter]

CycleTimer1(a) ==
  LET t == IF a.timer1int = 0
           THEN LET b == [a EXCEPT !.timer1int = Timer1Base]
                    k == Tick(a.timer1div, a.timer1target, a.timer1counter)
                IN IF a.timer1enabled
                   THEN [b EXCEPT !.timer1div = k.div, !.timer1counter = k.counter]
                   ELSE b
           ELSE a
  IN [t EXCEPT !.timer1int = @ - 1]

CycleTimer2(a) ==
  LET t == IF a.timer2int = 0
           THEN LET b == [a EXCEPT !.timer2int = Timer2Base]
                    k == Tick(a.timer2div, a.timer2target, a.timer2counter)
                IN IF a.timer2enabled
                   THEN [b EXCEPT !.timer2div = k.div, !.timer2counter = k.counter]
                   ELSE b
           ELSE a
  IN [t EXCEPT !.timer2int = @ - 1]

CycleTimer3Always(a) ==
  LET t == IF a.timer3int = 0
           THEN LET b == [a EXCEPT !.timer3int = Timer3Base]
                    k == Tick(a.timer3div, a.timer3target, a.timer3counter)
                IN [b EXCEPT !.timer3div = k.div, !.timer3counter = k.counter]
           ELSE a
  IN [t EXCEPT !.timer3int = @ - 1]

CycleTimer3(a) ==
  LET t == IF a.timer3int = 0
           THEN LET b == [a EXCEPT !.timer3int = Timer3Base]
                    k == Tick(a.timer3div, a.timer3target, a.timer3counter)
                IN IF a.timer3enabled
                   THEN [b EXCEPT !.timer3div = k.div, !.timer3counter = k.counter]
                   ELSE b
           ELSE a
  IN [t EXCEPT !.timer3int = @ - 1]

ApuCycle(a) ==
  LET a1 == [a EXCEPT !.spc = SpcCycle(@)]
      a2 == CycleDsp(a1)
      a3 == CycleTimer3(CycleTimer2(CycleTimer1(a2)))
  IN [a3 EXCEPT !.cycles = @ + 1]

---------------------------------------------------------------------------
(* Apu.read: the value returned and the Apu after the read.                *)

ReadRam(a, adr) == IF adr \in RamAdrs THEN a.ram[adr] ELSE 0

ReadPortMirrored(a, adr) ==
  IF adr < 248 THEN a.spcWritePorts[adr - 244] ELSE a.spcReadPorts[adr - 244]

(* case 0xf4 .. 0xf9 *)
ReadPort(a, adr) == a.spcReadPorts[adr - 244]

(* case 0xfd *)
ReadCounter1(a) ==
  [val |-> a.timer1counter, apu |-> [a EXCEPT !.timer1counter = 0]]

ReadCounter2Keeps(a) == [val |-> a.timer2counter, apu |-> a]

(* case 0xfe *)
ReadCounter2(a) ==
  [val |-> a.timer2counter, apu |-> [a EXCEPT !.timer2counter = 0]]

(* case 0xff *)
ReadCounter3(a) ==
  [val |-> a.timer3counter, apu |-> [a EXCEPT !.timer3counter = 0]]

ReadBootRomFirst(a, adr) == a.bootRom[1]

(* this.bootRom[adr & 0x3f] *)
ReadBootRom(a, adr) == a.bootRom[(adr % 64) + 1]

(* case 0xf3 *)
ReadDspData(a) == DspRead(a.dsp, a.dspAdr % 128)

ApuReadStored(a, adr0) ==
  LET adr == adr0 % 65536 IN
  CASE adr \in {240, 241} -> [val |-> 0, apu |-> a]
    [] adr = 250 -> [val |-> a.timer1target, apu |-> a]
    [] adr = 251 -> [val |-> a.timer2target, apu |-> a]
    [] adr = 252 -> [val |-> a.timer3target, apu |-> a]
    [] adr = 242 -> [val |-> a.dspAdr, apu |-> a]
    [] adr = 243 -> [val |-> ReadDspData(a), apu |-> a]
    [] adr \in 244..249 -> [val |-> ReadPort(a, adr), apu |-> a]
    [] adr = 253 -> ReadCounter1(a)
    [] adr = 254 -> ReadCounter2(a)
    [] adr = 255 -> ReadCounter3(a)
    [] OTHER ->
         IF adr >= 65472 /\ a.dspRomReadable
         THEN [val |-> ReadBootRom(a, adr), apu |-> a]
         ELSE [val |-> ReadRam(a, adr), apu |-> a]

ApuRead(a, adr0) ==
  LET adr == adr0 % 65536 IN
  CASE adr \in {240, 241, 250, 251, 252} -> [val |-> 0, apu |-> a]
    [] adr = 242 -> [val |-> a.dspAdr, apu |-> a]
    [] adr = 243 -> [val |-> ReadDspData(a), apu |-> a]
    [] adr \in 244..249 -> [val |-> ReadPort(a, adr), apu |-> a]
    [] adr = 253 -> ReadCounter1(a)
    [] adr = 254 -> ReadCounter2(a)
    [] adr = 255 -> ReadCounter3(a)
    [] OTHER ->
         IF adr >= 65472 /\ a.dspRomReadable
         THEN [val |-> ReadBootRom(a, adr), apu |-> a]
         ELSE [val |-> ReadRam(a, adr), apu |-> a]

---------------------------------------------------------------------------
(* Apu.write                                                               *)

WriteRam(a, adr, value) ==
  IF adr \in RamAdrs THEN [a EXCEPT !.ram[adr] = value] ELSE a

(* case 0xf1, a timer going from disabled to enabled *)
StartTimer1(a, value) ==
  IF ~a.timer1enabled /\ Bit(value, 0)
  THEN [a EXCEPT !.timer1div = 0, !.timer1counter = 0] ELSE a

StartTimer2(a, value) ==
  IF ~a.timer2enabled /\ Bit(value, 1)
  THEN [a EXCEPT !.timer2div = 0, !.timer2counter = 0] ELSE a

StartTimer3Always(a, value) ==
  IF Bit(value, 2)
  THEN [a EXCEPT !.timer3div = 0, !.timer3counter = 0] ELSE a

StartTimer3(a, value) ==
  IF ~a.timer3enabled /\ Bit(value, 2)
  THEN [a EXCEPT !.timer3div = 0, !.timer3counter = 0] ELSE a

ClearPortsBit5Wide(a, value) ==
  LET p1 == IF Bit(value, 4)
            THEN [a EXCEPT !.spcReadPorts[0] = 0, !.spcReadPorts[1] = 0] ELSE a
  IN IF Bit(value, 5)
     THEN [p1 EXCEPT !.spcReadPorts[1] = 0, !.spcReadPorts[2] = 0,
                     !.spcReadPorts[3] = 0]
     ELSE p1

(* case 0xf1, the port-clear bits *)
ClearPorts(a, value) ==
  LET p1 == IF Bit(value, 4)
            THEN [a EXCEPT !.spcReadPorts[0] = 0, !.spcReadPorts[1] = 0] ELSE a
  IN IF Bit(value, 5)
     THEN [p1 EXCEPT !.spcReadPorts[2] = 0, !.spcReadPorts[3] = 0] ELSE p1

(* case 0xf1 *)
WriteControl(a, value) ==
  LET t3 == StartTimer3(StartTimer2(StartTimer1(a, value), value), value)
      e  == [t3 EXCEPT !.timer1enabled = Bit(value, 0),
                       !.timer2enabled = Bit(value, 1),
                       !.timer3enabled = Bit(value, 2),
                       !.dspRomReadable = Bit(value, 7)]
  IN ClearPorts(e, value)

WriteDspDataMasked(a, value) ==
  [a EXCEPT !.dsp = DspWrite(@, a.dspAdr % 128, value)]

(* case 0xf3 *)
WriteDspData(a, value) ==
  IF a.dspAdr < 128 THEN [a EXCEPT !.dsp = DspWrite(@, a.dspAdr, value)] ELSE a

(* the switch of write: a case without break runs on into the next one *)
WriteRegister(a, adr, value) ==
  CASE adr = 240 -> a
    [] adr = 241 -> WriteControl(a, value)
    [] adr = 242 -> [a EXCEPT !.dspAdr = value]
    [] adr = 243 -> WriteDspData(a, value)
    [] adr \in 244..247 -> [a EXCEPT !.spcWritePorts[adr - 244] = value]
    [] adr \in 248..249 -> [a EXCEPT !.spcReadPorts[adr - 244] = value,
                                     !.timer1target = value]
    [] adr = 250 -> [a EXCEPT !.timer1target = value]
    [] adr = 251 -> [a EXCEPT !.timer2target = value]
    [] adr = 252 -> [a EXCEPT !.timer3target = value]
    [] OTHER -> a

ApuWrite(a, adr0, value) ==
  LET adr == adr0 % 65536 IN WriteRam(WriteRegister(a, adr, value), adr, value)

---------------------------------------------------------------------------
(* The calls, as steps of the model.  Each specification below says which  *)
(* calls it makes and with which arguments; Counted is a call that counts   *)
(* towards MaxCalls.                                                       *)

Counted == calls < MaxCalls /\ calls' = calls + 1 /\ UNCHANGED <<drv, svc, rom, webVars>>
StateCounted ==
  calls < MaxStateCalls /\ calls' = calls + 1 /\ UNCHANGED <<drv, svc, rom, webVars>>
Free == UNCHANGED <<calls, drv, svc, rom, webVars>>

NoCall == [op |-> "none", adr |-> 0, value |-> 0, ret |-> 0, err |-> FALSE,
           slot |-> 0, bad |-> "", field |-> ""]

Usable == apu.undef = {}

(* Apu.cycle() *)
Cycle ==
  /\ Usable
  /\ apu' = ApuCycle(apu)
  /\ pre' = apu
  /\ last' = [NoCall EXCEPT !.op = "cycle"]
  /\ UNCHANGED <<slots, savedAt>>

(* Apu.read(adr) *)
Read(adr) ==
  /\ Usable
  /\ LET r == ApuRead(apu, adr) IN
       /\ apu' = r.apu
       /\ last' = [NoCall EXCEPT !.op = "read", !.adr = adr, !.ret = r.val]
  /\ pre' = apu
  /\ UNCHANGED <<slots, savedAt>>

(* Apu.write(adr, value) *)
Write(adr, value) ==
  /\ Usable
  /\ apu' = ApuWrite(apu, adr, value)
  /\ pre' = apu
  /\ last' = [NoCall EXCEPT !.op = "write", !.adr = adr, !.value = value]
  /\ UNCHANGED <<slots, savedAt>>

(* The main CPU stores a byte in port k: it lands in spcReadPorts[k]. *)
CpuStore(a, k, value) == [a EXCEPT !.spcReadPorts[k] = value]

CpuWrite(k, value) ==
  /\ Usable
  /\ apu' = CpuStore(apu, k, value)
  /\ pre' = apu
  /\ last' = [NoCall EXCEPT !.op = "cpuwrite", !.adr = k, !.value = value]
  /\ UNCHANGED <<slots, savedAt>>

(* slots[k] = apu.getState(), as EmulatorService.saveState keeps the       *)
(* machine's snapshot in saveSlots.                                        *)
Put(f, k, v) == [j \in DOMAIN f \cup {k} |-> IF j = k THEN v ELSE f[j]]

SaveState(k) ==
  /\ Usable
  /\ slots' = Put(slots, k, GetState(apu))
  /\ savedAt' = Put(savedAt, k, [apu |-> apu, loads |-> 0])
  /\ pre' = apu
  /\ last' = [NoCall EXCEPT !.op = "getState", !.slot = k]
  /\ UNCHANGED apu

(* apu.setState(slots[k]) *)
LoadState(k) ==
  /\ Usable
  /\ k \in DOMAIN slots
  /\ LET r == SetState(apu, slots[k]) IN
       /\ apu' = r.apu
       /\ last' = [NoCall EXCEPT !.op = "setState", !.slot = k, !.err = r.err]
  /\ pre' = apu
  /\ savedAt' = [savedAt EXCEPT ![k].loads = IF @ < 2 THEN @ + 1 ELSE @]
  /\ UNCHANGED slots

(* A snapshot that is not what getState returns: a copy of s without the   *)
(* property f ("drop"), or with the array f one element shorter ("short"). *)
Shorter(arr) ==
  LET top == CHOOSE i \in DOMAIN arr : \A j \in DOMAIN arr : j <= i
  IN [i \in DOMAIN arr \ {top} |-> arr[i]]

Malformed(s, a, kind, f) ==
  IF kind = "drop" THEN [s EXCEPT !.missing = {f}]
  ELSE [s EXCEPT ![f] = [of |-> f, shared |-> FALSE,
                         elems |-> Shorter(Deref(s[f], a))]]

BadKinds ==
  {<<"drop", f>> : f \in ArrayFields \cup ObjectFields \cup {"timer1int", "dspRomReadable"}}
    \cup {<<"short", f>> : f \in ArrayFields}

(* apu.setState(s), s a malformed copy of slots[k] *)
BadLoad(k, kind, f) ==
  /\ Usable
  /\ k \in DOMAIN slots
  /\ LET r == SetState(apu, Malformed(slots[k], apu, kind, f)) IN
       /\ apu' = r.apu
       /\ last' = [NoCall EXCEPT !.op = "setState", !.slot = k, !.err = r.err,
                                 !.bad = kind, !.field = f]
  /\ pre' = apu
  /\ UNCHANGED <<slots, savedAt>>

InitApu ==
  /\ apu = Reset
  /\ slots = << >>
  /\ savedAt = << >>
  /\ pre = Reset
  /\ last = NoCall
  /\ calls = 0
  /\ svc = "unused"
  /\ rom = "unused" /\ NoWeb

---------------------------------------------------------------------------
(* SpecPorts: the ports and the control register.                          *)

PortVals == {0, 1, 255}
ControlVals == {0, 16, 32, 48, 135, 183}   \* 0x00 0x10 0x20 0x30 0x87 0xB7
PortsWriteAdrs == 244..252 \cup {242}
PortsReadAdrs == 244..249 \cup {241, 242}

PortsCycle == apu.cycles < MaxCycles /\ Cycle /\ Free
PortsCpuWrite == Counted /\ \E k \in WritePortIdx, v \in PortVals : CpuWrite(k, v)
PortsWrite ==
  Counted /\ \E adr \in PortsWriteAdrs, v \in PortVals \ {0} : Write(adr, v)
PortsControl == Counted /\ \E v \in ControlVals : Write(241, v)
PortsRead == Counted /\ \E adr \in PortsReadAdrs : Read(adr)

InitPorts == InitApu /\ drv = "ports"
NextPorts == PortsCycle \/ PortsCpuWrite \/ PortsWrite \/ PortsControl \/ PortsRead
SpecPorts == InitPorts /\ [][NextPorts]_vars

(* C9: port handshake.  A byte the CPU stores in port K is what every APU   *)
(* read of 0xF4+K returns, from the store on and across APU cycles, until   *)
(* the CPU stores again or a 0xF1 write with the port's clear bit clears    *)
(* it; an SPC write to 0xF4+K lands in spcWritePorts[K] and leaves the      *)
(* byte the SPC reads back unchanged.                                       *)
ClearsPort(call, k) ==
  /\ call.op = "write" /\ call.adr % 65536 = 241
  /\ Bit(call.value, IF k < 2 THEN 4 ELSE 5)

C9_PortHandshake ==
  \A k \in WritePortIdx :
    /\ (last.op = "cpuwrite" /\ last.adr = k) => apu.spcReadPorts[k] = last.value
    /\ (last.op = "read" /\ last.adr = 244 + k) =>
          /\ last.ret = pre.spcReadPorts[k]
          /\ apu.spcReadPorts[k] = pre.spcReadPorts[k]
    /\ (last.op = "write" /\ last.adr = 244 + k) =>
          /\ apu.spcWritePorts[k] = last.value
          /\ apu.spcReadPorts[k] = pre.spcReadPorts[k]
    /\ apu.spcReadPorts[k] # pre.spcReadPorts[k] =>
          \/ last.op = "cpuwrite" /\ last.adr = k
          \/ ClearsPort(last, k)

(* A read of 0xF6 after a cycle returns the byte the CPU stored, which is   *)
(* not the byte the SPC wrote to the same address.                          *)
C9_Witness ==
  /\ last.op = "read" /\ last.adr = 246
  /\ last.ret = 255
  /\ apu.spcWritePorts[2] = 1
  /\ apu.cycles >= 1

(* C10: a write of v to 0xF1 zeroes read-ports 0 and 1 exactly when bit 4   *)
(* of v is set and read-ports 2 and 3 exactly when bit 5 is set (a port     *)
(* whose bit is clear keeps its byte); it changes none of the four write    *)
(* ports, the bytes 0xF8 / 0xF9 of the read ports, the timer targets and    *)
(* the DSP address.                                                        *)
C10_ControlClearsPorts ==
  (last.op = "write" /\ last.adr % 65536 = 241) =>
    /\ \A k \in WritePortIdx :
         apu.spcReadPorts[k] =
           IF Bit(last.value, IF k < 2 THEN 4 ELSE 5) THEN 0
           ELSE pre.spcReadPorts[k]
    /\ apu.spcWritePorts = pre.spcWritePorts
    /\ apu.spcReadPorts[4] = pre.spcReadPorts[4]
    /\ apu.spcReadPorts[5] = pre.spcReadPorts[5]
    /\ apu.timer1target = pre.timer1target
    /\ apu.timer2target = pre.timer2target
    /\ apu.timer3target = pre.timer3target
    /\ apu.dspAdr = pre.dspAdr

(* Bit 5 alone: ports 2 and 3 go from nonzero to zero, port 1 keeps its     *)
(* byte.                                                                    *)
C10_Witness ==
  /\ last.op = "write" /\ last.adr = 241 /\ last.value = 32
  /\ pre.spcReadPorts[2] # 0 /\ apu.spcReadPorts[2] = 0
  /\ pre.spcReadPorts[1] # 0 /\ apu.spcReadPorts[1] = pre.spcReadPorts[1]

---------------------------------------------------------------------------
(* The fields and registers of timer t (1, 2, 3).                          *)

TimerIds == 1..3
TInt(a, t) == CASE t = 1 -> a.timer1int [] t = 2 -> a.timer2int [] t = 3 -> a.timer3int
TDiv(a, t) == CASE t = 1 -> a.timer1div [] t = 2 -> a.timer2div [] t = 3 -> a.timer3div
TTarget(a, t) ==
  CASE t = 1 -> a.timer1target [] t = 2 -> a.timer2target [] t = 3 -> a.timer3target
TCounter(a, t) ==
  CASE t = 1 -> a.timer1counter [] t = 2 -> a.timer2counter [] t = 3 -> a.timer3counter
TEnabled(a, t) ==
  CASE t = 1 -> a.timer1enabled [] t = 2 -> a.timer2enabled [] t = 3 -> a.timer3enabled
TBase(t) == CASE t = 1 -> Timer1Base [] t = 2 -> Timer2Base [] t = 3 -> Timer3Base
TargetReg(t) == 249 + t      \* 0xFA, 0xFB, 0xFC
CounterReg(t) == 252 + t     \* 0xFD, 0xFE, 0xFF
EnableBit(t) == t - 1        \* bit 0, 1, 2 of 0xF1

IsControlWrite(call) == call.op = "write" /\ call.adr % 65536 = 241

---------------------------------------------------------------------------
(* SpecRegs: the registers of one timer (drv.timer), every order of the    *)
(* calls: control writes that set only its bit, all three bits, the other  *)
(* two or none, targets 1 and 2, reads of its counter, and the first       *)
(* cycles after reset (the first cycle is a tick of every prescaler, the   *)
(* 17th the second tick of timer 3).                                       *)

RegsControlVals(t) == {0, 2 ^ EnableBit(t), 7, 7 - 2 ^ EnableBit(t)}
RegsTargets == {1, 2}

RegsCycle == apu.cycles < MaxRegCycles /\ Cycle /\ Free
RegsControl == Free /\ \E v \in RegsControlVals(drv.timer) : Write(241, v)
RegsTarget == Free /\ \E v \in RegsTargets : Write(TargetReg(drv.timer), v)
RegsRead == Free /\ Read(CounterReg(drv.timer))

InitRegs == InitApu /\ drv \in [timer : TimerIds]
NextRegs == RegsCycle \/ RegsControl \/ RegsTarget \/ RegsRead
SpecRegs == InitRegs /\ [][NextRegs]_vars

(* C6: a read of 0xFD, 0xFE, 0xFF returns the timer's counter as it was     *)
(* just before the read and leaves the counter at 0 (so the next read       *)
(* without a cycle in between returns 0), the timer enabled or not.         *)
C6_CounterClearOnRead ==
  \A t \in TimerIds :
    (last.op = "read" /\ last.adr % 65536 = CounterReg(t)) =>
      /\ last.ret = TCounter(pre, t)
      /\ TCounter(apu, t) = 0

(* A disabled timer 2 whose counter held 1 is read: 1 is returned and the   *)
(* counter is 0.                                                            *)
C6_Witness ==
  /\ last.op = "read" /\ last.adr = 254
  /\ last.ret = 1 /\ TCounter(pre, 2) = 1
  /\ ~apu.timer2enabled
  /\ apu.timer2counter = 0

(* C8: a write to 0xF1 zeroes a timer's divider and counter exactly when    *)
(* the timer was disabled before the write and its bit is set in the value  *)
(* written; otherwise it leaves both as they were; after the write each     *)
(* enabled flag equals its bit.                                             *)
C8_ControlStartsTimers ==
  IsControlWrite(last) =>
    \A t \in TimerIds :
      /\ TEnabled(apu, t) = Bit(last.value, EnableBit(t))
      /\ IF ~TEnabled(pre, t) /\ Bit(last.value, EnableBit(t))
         THEN TDiv(apu, t) = 0 /\ TCounter(apu, t) = 0
         ELSE TDiv(apu, t) = TDiv(pre, t) /\ TCounter(apu, t) = TCounter(pre, t)

(* Timer 3, enabled with a counter of 1, is written enabled again and       *)
(* keeps its counter.                                                       *)
C8_Witness ==
  /\ IsControlWrite(last) /\ Bit(last.value, 2)
  /\ pre.timer3enabled /\ pre.timer3counter = 1
  /\ apu.timer3counter = 1 /\ apu.timer3enabled

---------------------------------------------------------------------------
(* SpecTimer, SpecWrap: one timer run from enable.  After reset the driver *)
(* lets drv.phase cycles pass (the prescaler runs on whether the timer is  *)
(* enabled or not, so this sets its phase at the moment of enabling),      *)
(* writes drv.target to the timer's target register, enables the timer     *)
(* through 0xF1, runs exactly drv.len cycles and reads the counter twice.  *)

RunStart(t, T, len) ==
  [timer |-> t, target |-> T, len |-> len, stage |-> "phase", since |-> 0]

TimerPhase ==
  /\ drv.stage = "phase"
  /\ apu.cycles < TBase(drv.timer) - 1
  /\ Cycle
  /\ UNCHANGED <<calls, drv, svc, rom, webVars>>

TimerSetTarget ==
  /\ drv.stage = "phase"
  /\ Write(TargetReg(drv.timer), drv.target)
  /\ drv' = [drv EXCEPT !.stage = "armed"]
  /\ UNCHANGED <<calls, svc, rom, webVars>>

TimerEnable ==
  /\ drv.stage = "armed"
  /\ Write(241, 2 ^ EnableBit(drv.timer))
  /\ drv' = [drv EXCEPT !.stage = "run"]
  /\ UNCHANGED <<calls, svc, rom, webVars>>

TimerRun ==
  /\ drv.stage = "run"
  /\ drv.since < drv.len
  /\ Cycle
  /\ drv' = [drv EXCEPT !.since = @ + 1]
  /\ UNCHANGED <<calls, svc, rom, webVars>>

TimerReadOut ==
  /\ drv.stage = "run"
  /\ drv.since = drv.len
  /\ Read(CounterReg(drv.timer))
  /\ drv' = [drv EXCEPT !.stage = "read"]
  /\ UNCHANGED <<calls, svc, rom, webVars>>

TimerReadAgain ==
  /\ drv.stage = "read"
  /\ Read(CounterReg(drv.timer))
  /\ drv' = [drv EXCEPT !.stage = "done"]
  /\ UNCHANGED <<calls, svc, rom, webVars>>

(* SpecTimer: targets 0..MaxTarget for every timer, and 255 for the        *)
(* 16-base timer; every prescaler phase; T * base cycles.                  *)
TimerTargets(t) == 0..MaxTarget \cup (IF t = 3 THEN {255} ELSE {})

InitTimer ==
  /\ InitApu
  /\ \E t \in TimerIds : \E T \in TimerTargets(t) : drv = RunStart(t, T, T * TBase(t))
NextTimer ==
  \/ TimerPhase \/ TimerSetTarget \/ TimerEnable
  \/ TimerRun \/ TimerReadOut \/ TimerReadAgain
SpecTimer == InitTimer /\ [][NextTimer]_vars

(* SpecWrap: targets 1..MaxWrapTarget, enabled right after reset, run for  *)
(* 17 periods: the counter passes 15.                                      *)
InitWrap ==
  /\ InitApu
  /\ \E t \in TimerIds : \E T \in 1..MaxWrapTarget :
       drv = RunStart(t, T, 17 * T * TBase(t))
NextWrap ==
  \/ TimerSetTarget \/ TimerEnable \/ TimerRun \/ TimerReadOut \/ TimerReadAgain
SpecWrap == InitWrap /\ [][NextWrap]_vars

(* C5 as stated: for every target T in 0..255, T * base cycles after the   *)
(* timer went from disabled to enabled its counter is 1, a read of its      *)
(* counter register returns 1, and the counter is 0 after the read.         *)
C5_AsStated ==
  /\ (drv.stage = "run" /\ drv.since = drv.target * TBase(drv.timer)) =>
        TCounter(apu, drv.timer) = 1
  /\ drv.stage = "read" => (last.ret = 1 /\ TCounter(apu, drv.timer) = 0)

(* C5, amended to the targets 1..255: T * base cycles after the timer went  *)
(* from disabled to enabled, whatever the prescaler phase then, its counter *)
(* is 1 (it was cleared by the enabling write); the read of the counter     *)
(* register returns 1, leaves 0, and a second read returns 0.               *)
C5_TimerPeriod ==
  drv.target >= 1 =>
    /\ (drv.stage = "run" /\ drv.since = drv.target * TBase(drv.timer)) =>
          TCounter(apu, drv.timer) = 1
    /\ drv.stage = "read" => (last.ret = 1 /\ TCounter(apu, drv.timer) = 0)
    /\ drv.stage = "done" => (last.ret = 0 /\ TCounter(apu, drv.timer) = 0)

(* Timer 1 with target 2, enabled in the middle of a prescaler period, has  *)
(* been read after 256 cycles.                                              *)
C5_Witness ==
  /\ drv.timer = 1 /\ drv.target = 2 /\ drv.stage = "read"
  /\ drv.since = 2 * Timer1Base
  /\ apu.cycles = 64 + 2 * Timer1Base
  /\ last.op = "read" /\ last.ret = 1

(* The divider of timer t reaches its target in the cycle that starts in a. *)
ReachesTarget(a, t) ==
  /\ TInt(a, t) = 0
  /\ TEnabled(a, t)
  /\ (TDiv(a, t) + 1) % 256 = TTarget(a, t)

(* C7 as stated: the counter saturates: at 15, when the divider reaches its *)
(* target again and the counter has not been read, it stays at 15.          *)
C7_AsStated ==
  \A t \in TimerIds :
    (last.op = "cycle" /\ TCounter(pre, t) = 15) => TCounter(apu, t) = 15

(* C7, amended: the counter is a 4-bit counter that wraps: a cycle in which *)
(* the divider reaches its target takes it from c to (c + 1) mod 16, so     *)
(* from 15 to 0; any other cycle leaves it as it is; it is always in 0..15. *)
C7_CounterWraps ==
  \A t \in TimerIds :
    /\ TCounter(apu, t) \in 0..15
    /\ last.op = "cycle" =>
         TCounter(apu, t) =
           IF ReachesTarget(pre, t) THEN (TCounter(pre, t) + 1) % 16
           ELSE TCounter(pre, t)

(* Timer 2's counter held 15 and a cycle took it to 0.                      *)
C7_Witness ==
  /\ last.op = "cycle"
  /\ pre.timer2counter = 15 /\ ReachesTarget(pre, 2)
  /\ apu.timer2counter = 0

---------------------------------------------------------------------------
(* SpecState: getState / setState between calls that change every field.   *)

SlotIds == {1}
StateWrites ==
  { <<241, 7>>, <<250, 1>>, <<251, 2>>, <<252, 3>>, <<242, 127>>, <<243, 9>>,
    <<245, 1>>, <<248, 5>>, <<512, 7>>, <<65472, 8>> }

StateCycle == apu.cycles < MaxCycles /\ Cycle /\ Free
StateWrite == StateCounted /\ \E w \in StateWrites : Write(w[1], w[2])
StateCpuWrite == StateCounted /\ \E k \in {0, 3} : CpuWrite(k, 255)
StateRead == StateCounted /\ Read(253)
StateSave == Free /\ \E k \in SlotIds : SaveState(k)
StateLoad == Free /\ \E k \in SlotIds : LoadState(k)
StateBadLoad ==
  StateCounted /\ \E k \in SlotIds, b \in BadKinds : BadLoad(k, b[1], b[2])

InitState == InitApu /\ drv = "state"
NextState ==
  \/ StateCycle \/ StateWrite \/ StateCpuWrite \/ StateRead
  \/ StateSave \/ StateLoad \/ StateBadLoad
SpecState == InitState /\ [][NextState]_vars

GoodLoad(call) == call.op = "setState" /\ call.bad = ""

(* C1: setState of what getState returned brings every field of the Apu    *)
(* back to what it was when getState was called, right away as well as     *)
(* after any cycles, reads and writes in between, and does not throw.      *)
C1_SaveRestoreRoundTrip ==
  GoodLoad(last) => (apu = savedAt[last.slot].apu /\ ~last.err)

(* A restore that had something to undo: the state saved had run one       *)
(* cycle with timer 1 enabled, and the Apu had run one more since.         *)
C1_Witness ==
  /\ GoodLoad(last)
  /\ apu.cycles = 1 /\ pre.cycles = 2
  /\ apu.timer1enabled /\ apu.timer1counter = 1
  /\ apu.timer3int # pre.timer3int

(* C2: a setState that throws leaves the Apu as it was before the call.    *)
C2_RestoreIsAtomic ==
  (last.op = "setState" /\ last.err) => apu = pre

(* C3: setState of a snapshot that lacks a field, or holds an array        *)
(* shorter than the live one, throws: it never returns with a field        *)
(* assigned from an absent value or an array partly overwritten.           *)
C3_MalformedSnapshotRejected ==
  (last.op = "setState" /\ last.bad # "") => last.err

(* C4: a snapshot is a copy by value.  Whatever the Apu does after         *)
(* getState, the snapshot holds what the Apu held at getState, setState    *)
(* included; so every setState of the slot restores that same state.       *)
SnapshotHolds(s, a, orig) ==
  /\ \A f \in ArrayFields : Deref(s[f], a) = orig[f]
  /\ \A f \in ScalarFields \cup ObjectFields : s[f] = orig[f]

C4_SnapshotByValue ==
  /\ \A k \in DOMAIN slots : SnapshotHolds(slots[k], apu, savedAt[k].apu)
  /\ GoodLoad(last) => SnapshotHolds(slots[last.slot], apu, apu)

(* The second restore of a slot, after the Apu had moved away from the     *)
(* state saved.                                                            *)
C4_Witness ==
  /\ GoodLoad(last)
  /\ savedAt[last.slot].loads = 2
  /\ pre.ram # apu.ram
  /\ pre.spcReadPorts # apu.spcReadPorts

---------------------------------------------------------------------------
(* SpecRom: the boot ROM window 0xFFC0..0xFFFF, followed at its first and  *)
(* last address: control writes with bit 7 clear and set, writes to the    *)
(* window and reads of it.                                                 *)

RomAdrs == {65472, 65535}
RomVals == {7, 255}
RomControlVals == {0, 127, 128}     \* 0x00 0x7F 0x80

RomCycle == apu.cycles < MaxCycles /\ Cycle /\ Free
RomControl == Counted /\ \E v \in RomControlVals : Write(241, v)
RomWrite == Counted /\ \E adr \in RomAdrs, v \in RomVals : Write(adr, v)
RomRead == Counted /\ \E adr \in RomAdrs : Read(adr)

InitRom == InitApu /\ drv = "rom"
NextRom == RomCycle \/ RomControl \/ RomWrite \/ RomRead
SpecRom == InitRom /\ [][NextRom]_vars

(* C11: a read of an address a in 0xFFC0..0xFFFF returns the boot ROM byte *)
(* bootRom[a & 0x3F] when the ROM-readable flag is set and the RAM byte at *)
(* a when it is clear; the flag is set after reset, equals bit 7 of the    *)
(* value after each write to 0xF1 and changes through no other call; a     *)
(* write to the window stores into RAM whatever the flag; the 64 boot ROM  *)
(* bytes never change.                                                     *)
C11_BootRomWindow ==
  /\ apu.bootRom = bootRom
  /\ last.op = "none" => apu.dspRomReadable
  /\ IsControlWrite(last) => apu.dspRomReadable = Bit(last.value, 7)
  /\ apu.dspRomReadable # pre.dspRomReadable => IsControlWrite(last)
  /\ (last.op = "read" /\ last.adr \in RomAdrs) =>
        last.ret = IF pre.dspRomReadable THEN bootRom[(last.adr % 64) + 1]
                   ELSE pre.ram[last.adr]
  /\ (last.op = "write" /\ last.adr \in RomAdrs) =>
        apu.ram[last.adr] = last.value

(* The ROM switched off, a read of 0xFFFF returns the 7 written to RAM     *)
(* there while the ROM was still readable, not the ROM's 0xFF.             *)
C11_Witness ==
  /\ last.op = "read" /\ last.adr = 65535
  /\ ~apu.dspRomReadable
  /\ last.ret = 7

(* C12: an SPC write to 0xF8 or 0xF9 changes the auxiliary read-port byte  *)
(* of that address and the RAM byte there, nothing else; a timer's target  *)
(* changes only through a write to its own register (0xFA, 0xFB, 0xFC).    *)
C12_AuxWriteFrame ==
  last.op = "write" =>
    /\ last.adr \in 248..249 =>
          apu = [pre EXCEPT !.spcReadPorts[last.adr - 244] = last.value,
                            !.ram = apu.ram]
    /\ \A t \in TimerIds :
          TTarget(apu, t) # TTarget(pre, t) => last.adr = TargetReg(t)

---------------------------------------------------------------------------
(* SpecRatio: Apu.cycle() from reset, MaxRatioCycles times, with getState  *)
(* and setState of one slot at any point in between.                       *)

RatioCycle == apu.cycles < MaxRatioCycles /\ Cycle /\ Free
RatioSave == Free /\ \E k \in SlotIds : SaveState(k)
RatioLoad == Free /\ \E k \in SlotIds : LoadState(k)

InitRatio == InitApu /\ drv = "ratio"
NextRatio == RatioCycle \/ RatioSave \/ RatioLoad
SpecRatio == InitRatio /\ [][NextRatio]_vars

(* C13: every Apu.cycle() cycles the SPC once, and cycles the DSP exactly  *)
(* when the number of cycles made before it is a multiple of 32; so after  *)
(* n cycles from reset the SPC was cycled n times and the DSP ceil(n / 32) *)
(* times.  setState brings back the cycle count saved, and with it the     *)
(* place in the 32-cycle period.                                           *)
C13_DspRatio ==
  /\ apu.spc.cycles = apu.cycles
  /\ apu.dsp.cycles = (apu.cycles + 31) \div 32
  /\ last.op = "cycle" =>
        /\ apu.spc.cycles = pre.spc.cycles + 1
        /\ apu.dsp.cycles = pre.dsp.cycles + (IF pre.cycles % 32 = 0 THEN 1 ELSE 0)
  /\ GoodLoad(last) => apu.cycles % 32 = savedAt[last.slot].apu.cycles % 32

(* The 65th cycle, the third of the DSP, in a run that went back to the    *)
(* state saved after 40 cycles, in the middle of a period.                 *)
C13_Witness ==
  /\ last.op = "cycle"
  /\ apu.cycles = 65 /\ apu.dsp.cycles = 3
  /\ 1 \in DOMAIN savedAt
  /\ savedAt[1].apu.cycles = 40 /\ savedAt[1].loads >= 1

---------------------------------------------------------------------------
(* SpecDspPort: the DSP address register 0xF2 and the data port 0xF3, with *)
(* addresses below and above 0x80.                                         *)

DspAdrVals == {0, 127, 128, 255}    \* 0x00 0x7F 0x80 0xFF
DspDataVals == {1, 2}

DspPortAdr == Counted /\ \E v \in DspAdrVals : Write(242, v)
DspPortWrite == Counted /\ \E v \in DspDataVals : Write(243, v)
DspPortRead == Free /\ Read(243)

InitDspPort == InitApu /\ drv = "dspport"
NextDspPort == DspPortAdr \/ DspPortWrite \/ DspPortRead
SpecDspPort == InitDspPort /\ [][NextDspPort]_vars

(* C14 as stated: with A in the address register, a read and a write of    *)
(* 0xF3 both go to DSP register A & 0x7F, for A at or above 0x80 as well.  *)
C14_AsStated ==
  /\ (last.op = "read" /\ last.adr = 243) =>
        last.ret = pre.dsp.ram[pre.dspAdr % 128]
  /\ (last.op = "write" /\ last.adr = 243) =>
        apu.dsp.ram = [pre.dsp.ram EXCEPT ![pre.dspAdr % 128] = last.value]

(* C14, amended: a read of 0xF3 returns DSP register A & 0x7F; a write of  *)
(* 0xF3 stores into DSP register A when A is below 0x80 and changes no DSP *)
(* register when A is 0x80 or above.                                       *)
C14_DspAddress ==
  /\ (last.op = "read" /\ last.adr = 243) =>
        /\ last.ret = pre.dsp.ram[pre.dspAdr % 128]
        /\ apu.dsp = pre.dsp
  /\ (last.op = "write" /\ last.adr = 243) =>
        apu.dsp.ram = IF pre.dspAdr < 128
                      THEN [pre.dsp.ram EXCEPT ![pre.dspAdr] = last.value]
                      ELSE pre.dsp.ram

(* With 0xFF in the address register a read of 0xF3 returns what was       *)
(* written to register 0x7F.                                               *)
C14_Witness ==
  /\ last.op = "read" /\ last.adr = 243
  /\ apu.dspAdr = 255
  /\ last.ret = 2

---------------------------------------------------------------------------
(* EmulatorService (src/src/emulatorService.ts) on Node's event loop, with *)
(* no WsSync set.  `svc' holds the emulator as far as the service and its  *)
(* callers see it (ROM loaded, buttons held, the frame steps made), the    *)
(* command queue, and the pressButtonAsync / waitFramesAsync calls in      *)
(* flight.  A call runs until it awaits; svc.running is the call that      *)
(* holds the thread (0: none, the event loop takes the next request or     *)
(* resumes a call).  The time budget is an input: how many frames the      *)
(* inner loop gets through before 4 ms have passed (ChunkSizes), and       *)
(* whether more than 8 ms have passed since the last yield.                *)

Buttons == {"A", "B"}
Durations == {2, 61}
ChunkSizes == {30, 60}
SyncDurations == {2}

NoTask ==
  [op |-> "none", button |-> "none", durationFrames |-> 0, framesProcessed |-> 0,
   pc |-> "none", screenshot |-> FALSE, alone |-> FALSE,
   atCall |-> [frames |-> 0, pressed |-> {}], full |-> {}, yields |-> 0]

NoEvent == [op |-> "none", id |-> 0, call |-> NoTask]

(* What a caller can tell of the service and its machine: the ROM, the     *)
(* machine's position (frames since the ROM was loaded or the position a   *)
(* snapshot restored), the frame steps made, the save slots, the command   *)
(* queue and the rom_loaded broadcasts.                                    *)
NoMachine ==
  [romLoaded |-> FALSE, romPath |-> "none", clock |-> 0, frames |-> 0,
   saveSlots |-> << >>, commandQueue |-> << >>, romLoadedSent |-> 0]

(* romLoaded, romPath, clock, pressed: the emulator.  saveSlots,           *)
(* commandQueue: the service.  romLoadedSent: the calls of                 *)
(* wsSync.broadcastRomLoaded.  The rest is history: frames (frame steps    *)
(* ever made), lastStep, fastRun, maxFastRun, shot, before (what Machine   *)
(* was when the last loadRom / saveState / loadState was called), ev, and  *)
(* the counters loads, stateLoads, started.                                *)
InitService ==
  [romLoaded |-> FALSE, romPath |-> "none", clock |-> 0,
   pressed |-> {}, frames |-> 0, lastStep |-> "none",
   fastRun |-> 0, maxFastRun |-> 0, shot |-> "none",
   saveSlots |-> << >>, romLoadedSent |-> 0,
   commandQueue |-> << >>, inflight |-> << >>, running |-> 0, started |-> 0,
   loads |-> 0, stateLoads |-> 0, before |-> NoMachine,
   ev |-> NoEvent]

Machine(s) ==
  [romLoaded |-> s.romLoaded, romPath |-> s.romPath, clock |-> s.clock,
   frames |-> s.frames, saveSlots |-> s.saveSlots,
   commandQueue |-> s.commandQueue, romLoadedSent |-> s.romLoadedSent]

Max(x, y) == IF x >= y THEN x ELSE y
Without(f, k) == [j \in DOMAIN f \ {k} |-> f[j]]

(* The emulator: a full frame, a fast frame (PPU skipped), the buttons. *)
doFrame(s) ==
  [s EXCEPT !.frames = @ + 1, !.clock = @ + 1, !.lastStep = "full",
            !.fastRun = 0]
doFrameFast(s) ==
  [s EXCEPT !.frames = @ + 1, !.clock = @ + 1, !.lastStep = "fast",
            !.fastRun = @ + 1, !.maxFastRun = Max(@, s.fastRun + 1)]

(* emulator.loadRom(romPath) that returns: the machine is the ROM's, reset *)
emulatorLoadRom(s, path) ==
  [s EXCEPT !.romLoaded = TRUE, !.romPath = path, !.clock = 0]

(* emulator.saveState() / emulator.loadState(state): the whole machine *)
emulatorSaveState(s) == [romPath |-> s.romPath, clock |-> s.clock]
emulatorLoadState(s, state) ==
  [s EXCEPT !.romPath = state.romPath, !.clock = state.clock]
setButtonPressed(s, b) == [s EXCEPT !.pressed = @ \cup {b}]
setButtonReleased(s, b) == [s EXCEPT !.pressed = @ \ {b}]

(* getScreen(): the pixel buffer is encoded as the last frame step left it *)
getScreen(s) == [s EXCEPT !.shot = s.lastStep]

(* A call that steps frames or touches the buttons while others are in     *)
(* flight: none of those ran alone.                                        *)
Overlapped(s) ==
  [s EXCEPT !.inflight = [j \in DOMAIN @ |-> [@[j] EXCEPT !.alone = FALSE]]]

FullFrameAtOneBased(framesProcessed) ==
  (framesProcessed + 1) % PPU_SYNC_INTERVAL = 0

(* framesProcessed % this.PPU_SYNC_INTERVAL === 0 *)
FullFrameAt(framesProcessed) == framesProcessed % PPU_SYNC_INTERVAL = 0

(* The body of the inner loop of call i: one frame.  c.full keeps the      *)
(* indexes of the steps that were full frames.                             *)
StepFrame(s, i) ==
  LET c == s.inflight[i]
      full == FullFrameAt(c.framesProcessed)
      e == IF full THEN doFrame(s) ELSE doFrameFast(s)
  IN [e EXCEPT !.inflight[i].framesProcessed = @ + 1,
               !.inflight[i].full = IF full THEN @ \cup {c.framesProcessed} ELSE @]

RECURSIVE RunChunkPastEnd(_, _, _)
RunChunkPastEnd(s, i, k) ==
  IF k = 0 THEN s ELSE RunChunkPastEnd(StepFrame(s, i), i, k - 1)

(* The inner loop of call i, k frames within the budget. *)
RECURSIVE RunChunk(_, _, _)
RunChunk(s, i, k) ==
  IF k = 0 \/ s.inflight[i].framesProcessed >= s.inflight[i].durationFrames
  THEN s
  ELSE RunChunk(StepFrame(s, i), i, k - 1)

SvcFrame == UNCHANGED <<apuVars, rom, webVars>>
Idle == svc.running = 0
CanStart == Idle /\ svc.started < drv.limit

(* the frames of for (let i = 0; i < 5; i++) this.emulator.doFrame(), up   *)
(* to the one that throws (throwAt = 5: none does)                         *)
RECURSIVE InitialFrames(_, _, _)
InitialFrames(s, i, throwAt) ==
  IF i = 5 \/ i = throwAt THEN s ELSE InitialFrames(doFrame(s), i + 1, throwAt)

LoadFailed(s) == [s EXCEPT !.ev = [NoEvent EXCEPT !.op = "loadfail"]]

(* The body of loadRom(romPath).  A file that does not exist: the throw of *)
(* line 59, before the emulator is called.  An image emulator.loadRom      *)
(* rejects (accepted = FALSE): taken to leave the machine as it was.  A    *)
(* frame that throws: the catch block logs and throws again, after         *)
(* emulator.loadRom and the frames before it have run.                     *)
LoadRomBody(s, path, exists, accepted, throwAt) ==
  IF ~exists \/ ~accepted THEN LoadFailed(s)
  ELSE LET f == InitialFrames(emulatorLoadRom(Overlapped(s), path), 0, throwAt)
       IN IF throwAt < 5 THEN LoadFailed(f)
          ELSE [getScreen(f) EXCEPT
                  !.romLoadedSent = @ + 1,
                  !.ev = [NoEvent EXCEPT !.op = "screenshot"]]

(* loadRom(romPath); svc.loads counts the calls *)
SvcLoadRom(path, exists, accepted, throwAt) ==
  /\ Idle /\ svc.loads < drv.loads
  /\ svc' = LoadRomBody([svc EXCEPT !.before = Machine(svc), !.loads = @ + 1],
                        path, exists, accepted, throwAt)
  /\ SvcFrame

StartBodyUnchecked(s, op, b, n, shoot) ==
  LET id == s.started + 1
      c == [op |-> op, button |-> b, durationFrames |-> n,
            framesProcessed |-> 0, pc |-> "loop", screenshot |-> shoot,
            alone |-> (DOMAIN s.inflight = {}),
            atCall |-> [frames |-> s.frames, pressed |-> s.pressed],
            full |-> {}, yields |-> 0]
      q == [Overlapped(s) EXCEPT
              !.commandQueue =
                 Append(@, [type |-> IF op = "press" THEN "button_press"
                                     ELSE "wait_frames",
                            button |-> b, durationFrames |-> n]),
              !.started = id, !.running = id,
              !.inflight = Put(@, id, c)]
      h == IF op = "press" THEN setButtonPressed(q, b) ELSE q
  IN [h EXCEPT !.ev = [op |-> "start", id |-> id, call |-> c]]

(* pressButtonAsync(button, durationFrames) and waitFramesAsync(durationFrames), *)
(* called by the press_* / wait_frames tool with include_screenshot: up to *)
(* the loop.                                                               *)
StartBody(s, op, b, n, shoot) ==
  IF ~s.romLoaded
  THEN [s EXCEPT !.ev = [NoEvent EXCEPT !.op = "throw"]]
  ELSE LET id == s.started + 1
           c == [op |-> op, button |-> b, durationFrames |-> n,
                 framesProcessed |-> 0, pc |-> "loop", screenshot |-> shoot,
                 alone |-> (DOMAIN s.inflight = {}),
                 atCall |-> [frames |-> s.frames, pressed |-> s.pressed],
                 full |-> {}, yields |-> 0]
           q == [Overlapped(s) EXCEPT
                   !.commandQueue =
                      Append(@, [type |-> IF op = "press" THEN "button_press"
                                          ELSE "wait_frames",
                                 button |-> b, durationFrames |-> n]),
                   !.started = id, !.running = id,
                   !.inflight = Put(@, id, c)]
           h == IF op = "press" THEN setButtonPressed(q, b) ELSE q
       IN [h EXCEPT !.ev = [op |-> "start", id |-> id, call |-> c]]

StartCall(op, b, n, shoot) ==
  /\ CanStart
  /\ svc' = StartBody(svc, op, b, n, shoot)
  /\ SvcFrame

pressButtonAsync ==
  \E b \in Buttons, n \in Durations, shoot \in BOOLEAN : StartCall("press", b, n, shoot)
waitFramesAsync ==
  \E n \in Durations, shoot \in BOOLEAN : StartCall("wait", "none", n, shoot)

(* One pass of the outer loop of the running call: the inner loop gets     *)
(* through k frames; then the call awaits setImmediate (yield) or goes on. *)
Chunk ==
  /\ svc.running # 0
  /\ LET i == svc.running IN
       /\ svc.inflight[i].pc = "loop"
       /\ svc.inflight[i].framesProcessed < svc.inflight[i].durationFrames
       /\ \E k \in ChunkSizes, yield \in BOOLEAN :
            LET r == RunChunk(svc, i, k)
                y == IF yield
                     THEN [r EXCEPT !.inflight[i].pc = "yielded",
                                    !.inflight[i].yields = @ + 1, !.running = 0]
                     ELSE r
            IN svc' = [y EXCEPT !.ev = [op |-> "chunk", id |-> i, call |-> y.inflight[i]]]
  /\ SvcFrame

(* The setImmediate callback of a call that yielded. *)
Resume ==
  /\ Idle
  /\ \E i \in DOMAIN svc.inflight :
       /\ svc.inflight[i].pc = "yielded"
       /\ svc' = [svc EXCEPT !.inflight[i].pc = "loop", !.running = i,
                             !.ev = [op |-> "resume", id |-> i, call |-> svc.inflight[i]]]
  /\ SvcFrame

(* The loop is over: the button is released and the call resolves.  The    *)
(* tool that awaited it goes on in the same turn of the event loop.        *)
Resolve ==
  /\ svc.running # 0
  /\ LET i == svc.running
         c == svc.inflight[i]
     IN /\ c.pc = "loop"
        /\ c.framesProcessed >= c.durationFrames
        /\ LET r == IF c.op = "press" THEN setButtonReleased(svc, c.button) ELSE svc
               d == IF c.screenshot
                    THEN [r EXCEPT !.inflight[i].pc = "resolved"]
                    ELSE [r EXCEPT !.inflight = Without(@, i), !.running = 0]
           IN svc' = [d EXCEPT !.ev = [op |-> "resolve", id |-> i, call |-> c]]
  /\ SvcFrame

advanceFrameAtHead(s) ==
  LET q == [s EXCEPT !.commandQueue =
                        <<[type |-> "wait_frames", button |-> "none",
                           durationFrames |-> 1]>> \o @]
  IN getScreen(doFrame(q))

(* advanceFrameAndGetScreen() *)
advanceFrameAndGetScreen(s) ==
  LET q == [s EXCEPT !.commandQueue =
                        Append(@, [type |-> "wait_frames", button |-> "none",
                                   durationFrames |-> 1])]
  IN getScreen(doFrame(q))

(* press_* / wait_frames with include_screenshot, after the await *)
ToolScreenshot ==
  /\ svc.running # 0
  /\ LET i == svc.running IN
       /\ svc.inflight[i].pc = "resolved"
       /\ LET d == [svc EXCEPT !.inflight = Without(@, i), !.running = 0]
          IN svc' = [advanceFrameAndGetScreen(Overlapped(d)) EXCEPT
                       !.ev = [NoEvent EXCEPT !.op = "screenshot"]]
  /\ SvcFrame

(* the get_screen tool and GET /api/advance_and_get_screen *)
AdvanceAndGetScreen ==
  /\ CanStart
  /\ svc' =
       IF ~svc.romLoaded THEN [svc EXCEPT !.ev = [NoEvent EXCEPT !.op = "throw"]]
       ELSE [advanceFrameAndGetScreen(Overlapped(svc)) EXCEPT
               !.started = @ + 1, !.ev = [NoEvent EXCEPT !.op = "screenshot"]]
  /\ SvcFrame

(* GET /screen, and get_screen of POST /api/tool: getScreen() *)
ScreenRequest ==
  /\ Idle
  /\ svc' =
       IF ~svc.romLoaded THEN [svc EXCEPT !.ev = [NoEvent EXCEPT !.op = "throw"]]
       ELSE [getScreen(svc) EXCEPT !.ev = [NoEvent EXCEPT !.op = "screenshot"]]
  /\ SvcFrame

(* waitFrames(durationFrames), wait_frames of POST /api/tool *)
RECURSIVE Frames(_, _)
Frames(s, n) == IF n = 0 THEN s ELSE Frames(doFrame(s), n - 1)

waitFrames ==
  /\ CanStart
  /\ \E n \in SyncDurations :
       svc' =
         IF ~svc.romLoaded THEN [svc EXCEPT !.ev = [NoEvent EXCEPT !.op = "throw"]]
         ELSE [Frames(Overlapped(svc), n) EXCEPT
                 !.started = @ + 1, !.ev = [NoEvent EXCEPT !.op = "wait"]]
  /\ SvcFrame

InitSvc(limit) ==
  /\ apu = Reset /\ slots = << >> /\ savedAt = << >> /\ pre = Reset
  /\ last = NoCall /\ calls = 0
  /\ drv = [limit |-> limit, loads |-> MaxLoads, stateLoads |-> 0]
  /\ rom = "unused" /\ NoWeb
  /\ svc = InitService
LoadRom == \E exists \in BOOLEAN : SvcLoadRom("a.sfc", exists, TRUE, 5)
NextService ==
  \/ LoadRom \/ pressButtonAsync \/ waitFramesAsync
  \/ Chunk \/ Resume \/ Resolve \/ ToolScreenshot
  \/ AdvanceAndGetScreen \/ ScreenRequest \/ waitFrames

(* SpecService: up to MaxSvcCalls calls, which may overlap at a yield.     *)
(* SpecPress: up to MaxPressCalls calls.                                   *)
InitServiceCalls == InitSvc(MaxSvcCalls)
InitPressCalls == InitSvc(MaxPressCalls)
SpecService == InitServiceCalls /\ [][NextService]_vars
SpecPress == InitPressCalls /\ [][NextService]_vars

(* C15: the emulator never makes PPU_SYNC_INTERVAL or more doFrameFast     *)
(* steps in a row without a doFrame between them, calls that overlap at a  *)
(* yield included.                                                         *)
C15_FullFrameEveryInterval ==
  svc.maxFastRun < PPU_SYNC_INTERVAL

(* C16: whenever a screenshot is produced, the frame step made last before *)
(* the pixel buffer is encoded was a full doFrame.                         *)
C16_ScreenshotAfterFullFrame ==
  svc.ev.op = "screenshot" => svc.shot = "full"

(* C17: a pressButtonAsync(button, n) that no other call overlaps holds    *)
(* exactly its button from the call on, with no frame stepped by the       *)
(* press; makes its frame steps one by one, step i a doFrame when          *)
(* i % 60 = 0 and a doFrameFast otherwise; and when it resolves it has     *)
(* made exactly n steps and has released the button, with no frame         *)
(* stepped by the release.                                                 *)
StepsAsPrescribed(c) ==
  c.full = {k \in 0..(c.framesProcessed - 1) : k % 60 = 0}

C17_PressHoldsForFrames ==
  /\ \A i \in DOMAIN svc.inflight :
       LET c == svc.inflight[i] IN
         (c.op = "press" /\ c.alone /\ c.pc # "resolved") =>
            /\ svc.pressed = c.atCall.pressed \cup {c.button}
            /\ svc.frames = c.atCall.frames + c.framesProcessed
            /\ c.framesProcessed <= c.durationFrames
            /\ StepsAsPrescribed(c)
  /\ (svc.ev.op = "start" /\ svc.ev.call.op = "press") =>
        /\ svc.ev.call.button \in svc.pressed
        /\ svc.frames = svc.ev.call.atCall.frames
  /\ (svc.ev.op = "resolve" /\ svc.ev.call.op = "press" /\ svc.ev.call.alone) =>
        LET c == svc.ev.call IN
          /\ c.framesProcessed = c.durationFrames
          /\ StepsAsPrescribed(c)
          /\ svc.frames = c.atCall.frames + c.durationFrames
          /\ svc.pressed = c.atCall.pressed \ {c.button}

(* A press of 61 frames that ran alone, yielded on the way and resolved:   *)
(* its steps 0 and 60 were full frames.                                    *)
C17_Witness ==
  /\ svc.ev.op = "resolve" /\ svc.ev.call.op = "press" /\ svc.ev.call.alone
  /\ svc.ev.call.durationFrames = 61 /\ svc.ev.call.yields >= 1
  /\ svc.ev.call.full = {0, 60}
  /\ svc.pressed = {}
  /\ svc.frames = 5 + 61

---------------------------------------------------------------------------
(* detectHiRom (src/unnamed/part_001 759-783).  An image is its length and *)
(* its bytes at the offsets the model follows (every other byte is 0).     *)
(* `reads' are the offsets the function has read, in the image it reads    *)
(* them from.                                                              *)

LoChecksum == 32732      \* 0x7FDC
HiChecksum == 65500      \* 0xFFDC
MapMode == 65493         \* 0xFFD5
CopierHeader == 512

At(d, o) == IF o \in DOMAIN d.bytes THEN d.bytes[o] ELSE 0

(* data.slice(512) *)
Slice(d) ==
  [length |-> Max(d.length - CopierHeader, 0),
   bytes |-> [o \in {x - CopierHeader : x \in {y \in DOMAIN d.bytes : y >= CopierHeader}}
                |-> d.bytes[o + CopierHeader]]]

StripUnlessAligned(d) == IF d.length % 1024 # 0 THEN Slice(d) ELSE d

(* if (data.length % 1024 === 512) data = data.slice(512) *)
Strip(d) == IF d.length % 1024 = 512 THEN Slice(d) ELSE d

(* data[o] | (data[o + 1] << 8) *)
Word(d, o) == At(d, o) + 256 * At(d, o + 1)

(* loromValid / hiromValid: the checksum pair at base *)
PairValid(d, base) ==
  IF d.length >= base + 4
  THEN [valid |-> (Word(d, base) + Word(d, base + 2)) % 65536 = 65535,
        reads |-> base..(base + 3)]
  ELSE [valid |-> FALSE, reads |-> {}]

HiTypeBeforeChecksum(d) ==
  IF d.length >= HiChecksum
  THEN [val |-> At(d, HiChecksum - 1) \div 16, reads |-> {HiChecksum - 1}]
  ELSE [val |-> 0, reads |-> {}]

(* hiType *)
HiType(d) ==
  IF d.length >= MapMode + 1
  THEN [val |-> At(d, MapMode) \div 16, reads |-> {MapMode}]
  ELSE [val |-> 0, reads |-> {}]

DecideHiFirst(d, loromValid, hiromValid) ==
  [isHirom |-> hiromValid, reads |-> {}]

(* isHirom *)
Decide(d, loromValid, hiromValid) ==
  IF hiromValid /\ ~loromValid THEN [isHirom |-> TRUE, reads |-> {}]
  ELSE IF hiromValid /\ loromValid
       THEN [isHirom |-> HiType(d).val = 3, reads |-> HiType(d).reads]
       ELSE [isHirom |-> FALSE, reads |-> {}]

detectHiRom(data0) ==
  LET data == Strip(data0)
      lo == PairValid(data, LoChecksum)
      hi == PairValid(data, HiChecksum)
      r == Decide(data, lo.valid, hi.valid)
  IN [data |-> data, isHirom |-> r.isHirom,
      reads |-> lo.reads \cup hi.reads \cup r.reads]

(* The images tried: lengths around the two header places, with and        *)
(* without 512 bytes in front; checksum pairs that add up to 0xFFFF, that  *)
(* do not, and that do only without the 16-bit mask; map-mode bytes; the   *)
(* header fields put at their offsets (shift 0) or 512 bytes further on.   *)
RomLengths ==
  { 512, 32256, 32735, 32736, 32768, 33248, 33280,
    65024, 65503, 65504, 65536, 66016, 66048 }
PairBytes ==
  { <<0, 0, 255, 255>>, <<52, 18, 203, 237>>, <<0, 0, 0, 0>>, <<1, 0, 255, 255>> }
MapModeBytes == {33, 48, 49, 53}      \* 0x21 0x30 0x31 0x35
VersionBytes == {0, 48}
Shifts == {0, CopierHeader}

Image(len, shift, lo, hi, mode, version) ==
  [length |-> len,
   bytes |->
     [o \in {x \in ((LoChecksum + shift)..(LoChecksum + shift + 3)) \cup
                   ((HiChecksum + shift)..(HiChecksum + shift + 3)) \cup
                   {MapMode + shift, HiChecksum - 1 + shift} : x < len} |->
        CASE o - shift \in LoChecksum..(LoChecksum + 3) -> lo[o - shift - LoChecksum + 1]
          [] o - shift \in HiChecksum..(HiChecksum + 3) -> hi[o - shift - HiChecksum + 1]
          [] o - shift = MapMode -> mode
          [] OTHER -> version]]

NoResult == [data |-> [length |-> 0, bytes |-> << >>], isHirom |-> FALSE, reads |-> {}]

InitDetect ==
  /\ apu = Reset /\ slots = << >> /\ savedAt = << >> /\ pre = Reset
  /\ last = NoCall /\ calls = 0 /\ drv = "detect" /\ svc = "unused"
  /\ NoWeb
  /\ \E len \in RomLengths, shift \in Shifts, lo \in PairBytes, hi \in PairBytes,
        mode \in MapModeBytes, version \in VersionBytes :
       rom = [data |-> Image(len, shift, lo, hi, mode, version),
              called |-> FALSE, out |-> NoResult]

(* detected = detectHiRom(bytes) *)
Detect ==
  /\ ~rom.called
  /\ rom' = [rom EXCEPT !.called = TRUE, !.out = detectHiRom(rom.data)]
  /\ UNCHANGED <<apuVars, svc, webVars>>

NextDetect == Detect
SpecDetect == InitDetect /\ [][NextDetect]_vars

(* The checksum pair at base lies within the image and adds up to 0xFFFF   *)
(* in 16 bits.                                                             *)
PairHolds(d, base) ==
  /\ base + 3 < d.length
  /\ (At(d, base) + 256 * At(d, base + 1)
        + At(d, base + 2) + 256 * At(d, base + 3)) % 65536 = 65535

(* C18: on the image after header stripping, detectHiRom returns LoROM     *)
(* when only the LoROM pair is valid, HiROM when only the HiROM pair is,   *)
(* LoROM when neither is, and with both valid HiROM exactly when the       *)
(* map-mode nibble is 3; a pair beyond the end of the image counts as not  *)
(* valid, and no offset at or beyond the length is read.                   *)
C18_DetectAddressing ==
  rom.called =>
    LET d == rom.out.data
        lo == PairHolds(d, LoChecksum)
        hi == PairHolds(d, HiChecksum)
    IN /\ (lo /\ ~hi) => ~rom.out.isHirom
       /\ (hi /\ ~lo) => rom.out.isHirom
       /\ (~lo /\ ~hi) => ~rom.out.isHirom
       /\ (lo /\ hi) => (rom.out.isHirom <=> At(d, MapMode) \div 16 = 3)
       /\ \A o \in rom.out.reads : o < d.length

(* Both pairs valid and a map-mode byte of 0x31: HiROM. *)
C18_Witness ==
  /\ rom.called
  /\ PairHolds(rom.out.data, LoChecksum) /\ PairHolds(rom.out.data, HiChecksum)
  /\ At(rom.out.data, MapMode) = 49
  /\ rom.out.isHirom

(* C19 as stated: the nibble of the tie-break is read from the byte right  *)
(* before the HiROM checksum field, offset 0xFFDB.                         *)
C19_AsStated ==
  (rom.called /\ PairHolds(rom.out.data, LoChecksum)
              /\ PairHolds(rom.out.data, HiChecksum)) =>
    /\ HiChecksum - 1 \in rom.out.reads
    /\ rom.out.isHirom <=> At(rom.out.data, HiChecksum - 1) \div 16 = 3

(* C19, amended: the nibble of the tie-break is the high nibble of the     *)
(* byte at offset 0xFFD5 of the image, seven bytes before the HiROM        *)
(* checksum field 0xFFDC-0xFFDF; the byte at 0xFFDB is not read.           *)
C19_MapModeOffset ==
  (rom.called /\ PairHolds(rom.out.data, LoChecksum)
              /\ PairHolds(rom.out.data, HiChecksum)) =>
    /\ rom.out.reads \ ((LoChecksum..(LoChecksum + 3)) \cup (HiChecksum..(HiChecksum + 3)))
          = {65493}
    /\ rom.out.isHirom <=> At(rom.out.data, 65493) \div 16 = 3

(* Both pairs valid, 0x30 at 0xFFDB and 0x21 at 0xFFD5: LoROM. *)
C19_Witness ==
  /\ rom.called
  /\ PairHolds(rom.out.data, LoChecksum) /\ PairHolds(rom.out.data, HiChecksum)
  /\ At(rom.out.data, HiChecksum - 1) = 48 /\ At(rom.out.data, MapMode) = 33
  /\ ~rom.out.isHirom

(* C20: detectHiRom drops the first 512 bytes of the image exactly when    *)
(* length % 1024 = 512 and returns the image as it is otherwise; the       *)
(* header fields are taken from the image so stripped (byte o of it is     *)
(* byte o + 512 of the image given, when stripped), and that image is the  *)
(* data returned.                                                          *)
C20_CopierHeaderStripped ==
  rom.called =>
    LET raw == rom.data
        off == IF raw.length % 1024 = 512 THEN 512 ELSE 0
        Sum(base) == At(raw, base + off) + 256 * At(raw, base + off + 1)
                       + At(raw, base + off + 2) + 256 * At(raw, base + off + 3)
        Ok(base) == base + off + 3 < raw.length /\ Sum(base) % 65536 = 65535
    IN /\ rom.out.data.length = raw.length - off
       /\ \A o \in DOMAIN raw.bytes :
            o >= off => At(rom.out.data, o - off) = raw.bytes[o]
       /\ \A o \in DOMAIN rom.out.data.bytes : o + off \in DOMAIN raw.bytes
       /\ rom.out.isHirom <=>
            /\ Ok(HiChecksum)
            /\ Ok(LoChecksum) => At(raw, MapMode + off) \div 16 = 3

(* An image of 0x10200 bytes whose header fields sit 512 bytes further on: *)
(* stripped to 0x10000 bytes and found HiROM.                              *)
C20_Witness ==
  /\ rom.called
  /\ rom.data.length = 66048 /\ rom.out.data.length = 65536
  /\ rom.out.isHirom
  /\ At(rom.data, HiChecksum) = 0 /\ At(rom.data, HiChecksum + 2 + CopierHeader) = 255


---------------------------------------------------------------------------
(* SpecReset: Apu.reset() called on a machine that has run: after writes   *)
(* to RAM, the control register and the ports, after cycles, and after a   *)
(* setState that threw or left a field undefined.                          *)

(* function clearArray(arr) { for (i < arr.length) arr[i] = 0 } *)
clearArray(arr) == [i \in DOMAIN arr |-> 0]

ApuResetKeepsRomFlag(a) ==
  [a EXCEPT
    !.ram = clearArray(@), !.spcWritePorts = clearArray(@),
    !.spcReadPorts = clearArray(@),
    !.dspAdr = 0,
    !.spc = SpcReset, !.dsp = DspReset, !.cycles = 0,
    !.timer1int = 0, !.timer1div = 0, !.timer1target = 0,
    !.timer1counter = 0, !.timer1enabled = FALSE,
    !.timer2int = 0, !.timer2div = 0, !.timer2target = 0,
    !.timer2counter = 0, !.timer2enabled = FALSE,
    !.timer3int = 0, !.timer3div = 0, !.timer3target = 0,
    !.timer3counter = 0, !.timer3enabled = FALSE,
    !.undef = @ \cap {"dspRomReadable"}]

(* this.reset = function() {...}: the arrays are cleared in place, every   *)
(* scalar is assigned (none is left undefined), bootRom is not touched.    *)
ApuReset(a) ==
  [a EXCEPT
    !.ram = clearArray(@), !.spcWritePorts = clearArray(@),
    !.spcReadPorts = clearArray(@),
    !.dspAdr = 0, !.dspRomReadable = TRUE,
    !.spc = SpcReset, !.dsp = DspReset, !.cycles = 0,
    !.timer1int = 0, !.timer1div = 0, !.timer1target = 0,
    !.timer1counter = 0, !.timer1enabled = FALSE,
    !.timer2int = 0, !.timer2div = 0, !.timer2target = 0,
    !.timer2counter = 0, !.timer2enabled = FALSE,
    !.timer3int = 0, !.timer3div = 0, !.timer3target = 0,
    !.timer3counter = 0, !.timer3enabled = FALSE,
    !.undef = {}]

(* apu.reset() *)
ResetCall ==
  /\ apu' = ApuReset(apu)
  /\ pre' = apu
  /\ last' = [NoCall EXCEPT !.op = "reset"]
  /\ UNCHANGED <<slots, savedAt>>

ResetWrites ==
  { <<241, 7>>, <<242, 127>>, <<244, 9>>, <<250, 1>>, <<65472, 8>> }

ResetCycle == apu.cycles < MaxCycles /\ Cycle /\ Free
ResetWrite == Counted /\ \E w \in ResetWrites : Write(w[1], w[2])
ResetCpuWrite == Counted /\ CpuWrite(5, 255)
ResetSave == Free /\ SaveState(1)
ResetBadLoad ==
  Counted /\ BadLoad(1, "drop", "timer1int")
ResetReset == Free /\ ResetCall

InitReset == InitApu /\ drv = "reset"
NextReset ==
  \/ ResetCycle \/ ResetWrite \/ ResetCpuWrite \/ ResetSave \/ ResetBadLoad
  \/ ResetReset
SpecReset == InitReset /\ [][NextReset]_vars

TimerCleared(a, t) ==
  /\ TInt(a, t) = 0 /\ TDiv(a, t) = 0 /\ TTarget(a, t) = 0
  /\ TCounter(a, t) = 0 /\ ~TEnabled(a, t)

(* C23: right after Apu.reset(), whatever the machine held before, every   *)
(* byte of RAM, every write port and every read port is 0, the DSP address *)
(* and the cycle counter are 0, each of the three timers has prescaler,    *)
(* divider, target and counter 0 and is disabled, no field is undefined,   *)
(* and a read of 0xFFC0..0xFFFF returns the boot ROM byte.                 *)
C23_ResetClears ==
  last.op = "reset" =>
    /\ \A adr \in RamAdrs : apu.ram[adr] = 0
    /\ \A i \in WritePortIdx : apu.spcWritePorts[i] = 0
    /\ \A i \in ReadPortIdx : apu.spcReadPorts[i] = 0
    /\ apu.dspAdr = 0 /\ apu.cycles = 0
    /\ \A t \in TimerIds : TimerCleared(apu, t)
    /\ apu.undef = {}
    /\ \A adr \in RomAdrs : ApuRead(apu, adr).val = bootRom[adr - 65472 + 1]

(* A reset of a machine with RAM and a port written, a timer enabled with  *)
(* a target, the boot ROM hidden and some cycles run.                      *)
C23_Witness ==
  /\ last.op = "reset"
  /\ pre.ram[65472] = 8 /\ pre.spcWritePorts[0] = 9
  /\ ~pre.dspRomReadable /\ pre.timer1enabled
  /\ pre.cycles > 0
  /\ ApuRead(pre, 65472).val = 8

(* A reset of a machine a failed setState left with an undefined field.    *)
C23_WitnessUndefined ==
  last.op = "reset" /\ pre.undef # {}


---------------------------------------------------------------------------
(* SpecSamples: Apu.setSamples(left, right, sampleCount).                  *)
(*                                                                         *)
(* `add' and `total' are JavaScript numbers, IEEE 754 doubles.  A double x *)
(* with 1 <= x < 65536, and 0, is kept exactly as                          *)
(*     x = int + hi / 2^26 + lo / 2^52,   0 <= hi, lo < 2^26,              *)
(* which holds every double of that range (53 significant bits, so a       *)
(* double in [2^k, 2^(k+1)) is a multiple of 2^(k-52)).  Division and      *)
(* addition compute the exact result and round it to nearest, ties to      *)
(* even, as the hardware does.  534 / sampleCount >= 1 needs               *)
(* sampleCount <= 534.                                                     *)

MaxCount == 21      \* sampleCount of a setSamples call (SpecSamples)

RingSize == 534     \* the stride's numerator, the DSP's samples per frame
RECURSIVE Pow2(_)
Pow2(n) == IF n = 0 THEN 1 ELSE 2 * Pow2(n - 1)

Two26 == Pow2(26)
Two13 == Pow2(13)

(* the binary exponent of an integer part n >= 1 *)
Exponent(n) == CHOOSE k \in 0..15 : Pow2(k) <= n /\ n < Pow2(k + 1)

Zero == [int |-> 0, hi |-> 0, lo |-> 0]

Carry(int, hi, lo) ==
  LET h == hi + (lo \div Two26) IN
  [int |-> int + (h \div Two26), hi |-> h % Two26, lo |-> lo % Two26]

(* The double nearest to x + (num / den) * 2^-52, 0 <= num < den, ties to  *)
(* even: the last place of a double in [2^k, 2^(k+1)) is 2^k * 2^-52.      *)
RoundToDouble(x, num, den) ==
  IF x.int = 0 THEN x
  ELSE LET unit == Pow2(Exponent(x.int))
           rem == x.lo % unit
           kept == x.lo - rem
           twice == 2 * (rem * den + num)
           full == unit * den
           odd == (kept \div unit) % 2 = 1
           up == twice > full \/ (twice = full /\ odd)
       IN  Carry(x.int, x.hi, IF up THEN kept + unit ELSE kept)

(* thirteen more bits of the quotient r / d, r < d *)
Digit(r, d) == [q |-> (r * Two13) \div d, r |-> (r * Two13) % d]

(* n / d in double arithmetic, n >= d >= 1 integers *)
DivDouble(n, d) ==
  LET d1 == Digit(n % d, d)
      d2 == Digit(d1.r, d)
      d3 == Digit(d2.r, d)
      d4 == Digit(d3.r, d)
  IN  RoundToDouble([int |-> n \div d, hi |-> d1.q * Two13 + d2.q,
                     lo |-> d3.q * Two13 + d4.q], d4.r, d)

(* x + y in double arithmetic *)
AddDouble(x, y) ==
  RoundToDouble(Carry(x.int + y.int, x.hi + y.hi, x.lo + y.lo), 0, 1)

ToIndexNearest(x) ==
  (IF x.hi >= Two26 \div 2 THEN x.int + 1 ELSE x.int) % 65536

(* total & 0xffff: ToInt32 drops the fraction *)
ToIndex(x) == x.int % 65536

(* let add = 534 / sampleCount *)
Stride(sampleCount) == DivDouble(RingSize, sampleCount)

(* total at the top of iteration i: i times total += add, from 0 *)
RECURSIVE TotalAt(_, _)
TotalAt(i, add) == IF i = 0 THEN Zero ELSE AddDouble(TotalAt(i - 1, add), add)

(* for(let i = 0; i < sampleCount; i++) { left[i] = ...; right[i] = ... }  *)
(* this.dsp.sampleOffset = 0                                               *)
SetSamples(a, sampleCount) ==
  LET add == Stride(sampleCount)
      at(i) == ToIndex(TotalAt(i, add))
  IN  [a EXCEPT
        !.left = [i \in DOMAIN a.left |->
                    IF i < sampleCount THEN a.samplesL[at(i)] ELSE a.left[i]],
        !.right = [i \in DOMAIN a.right |->
                     IF i < sampleCount THEN a.samplesR[at(i)] ELSE a.right[i]],
        !.sampleOffset = 0,
        !.sampleCount = sampleCount, !.called = TRUE]

SampleBases == {1, 2000}
SampleOffsets == {0, 100, 534}
Stale == 0 - 1      \* what the output buffers hold before the call

(* The ring buffer holds a different value at every index, left and right, *)
(* so that an output entry tells the index it was read at.                 *)
InitAudio ==
  \E base \in SampleBases, off \in SampleOffsets, sampleCount \in 1..MaxCount :
    audio = [samplesL |-> [j \in 0..(RingSize - 1) |-> base + j],
             samplesR |-> [j \in 0..(RingSize - 1) |-> base + 1000 + j],
             sampleOffset |-> off,
             left |-> [i \in 0..MaxCount |-> Stale],
             right |-> [i \in 0..MaxCount |-> Stale],
             sampleCount |-> sampleCount, called |-> FALSE]

InitSamples ==
  /\ apu = Reset /\ slots = << >> /\ savedAt = << >> /\ pre = Reset
  /\ last = NoCall /\ calls = 0 /\ drv = "samples"
  /\ svc = "unused" /\ rom = "unused"
  /\ boot = "unused" /\ sync = "unused" /\ page = "unused" /\ NoPage
  /\ InitAudio

(* apu.setSamples(left, right, sampleCount) *)
CallSetSamples ==
  /\ ~audio.called
  /\ audio' = SetSamples(audio, audio.sampleCount)
  /\ UNCHANGED <<apuVars, svc, rom, boot, sync, page, sse, ring>>

NextSamples == CallSetSamples
SpecSamples == InitSamples /\ [][NextSamples]_vars

(* floor(i * 534 / count) *)
Even(i, count) == (i * RingSize) \div count
OnSample(i, count) == (i * RingSize) % count = 0

---------------------------------------------------------------------------
(* Overlapping presses (SpecService).                                      *)

(* C25: during every frame a pressButtonAsync call steps, the button of    *)
(* that call is pressed on the emulator, also when another call that       *)
(* overlaps it at a yield names the same button and releases it at its     *)
(* own end.  A chunk steps at least one frame and leaves the buttons as    *)
(* they were during its frames.                                            *)
C25_HeldWhileStepping ==
  (svc.ev.op = "chunk" /\ svc.ev.call.op = "press") =>
     svc.ev.call.button \in svc.pressed


---------------------------------------------------------------------------
(* SpecSlots: loadRom with its three ways to fail, saveState and loadState *)
(* (the save_state and load_state tools), around one press that may be     *)
(* suspended at a yield.                                                   *)

MaxSlotCalls == 1       \* press calls (SpecSlots)
MaxSlotLoads == 2       \* loadRom calls (SpecSlots)
MaxStateLoads == 1      \* loadState calls (SpecSlots)

RomPaths == {"a.sfc", "b.sfc"}
ThrowFrames == {3, 5}       \* the initial frame that throws; 5: none
SaveSlotIds == {0}

SaveStateAlone(s, slot) ==
  IF ~s.romLoaded THEN [s EXCEPT !.ev = [NoEvent EXCEPT !.op = "throw"]]
  ELSE [s EXCEPT !.saveSlots = Put(<< >>, slot, emulatorSaveState(s)),
                 !.ev = [NoEvent EXCEPT !.op = "saved", !.id = slot]]

(* saveState(slot), up to the return *)
SaveStateBody(s, slot) ==
  IF ~s.romLoaded THEN [s EXCEPT !.ev = [NoEvent EXCEPT !.op = "throw"]]
  ELSE [s EXCEPT !.saveSlots = Put(@, slot, emulatorSaveState(s)),
                 !.ev = [NoEvent EXCEPT !.op = "saved", !.id = slot]]

LoadStateNoFrame(s, slot) ==
  IF ~s.romLoaded \/ slot \notin DOMAIN s.saveSlots
  THEN [s EXCEPT !.ev = [NoEvent EXCEPT !.op = "throw"]]
  ELSE [getScreen(emulatorLoadState(Overlapped(s), s.saveSlots[slot]))
          EXCEPT !.ev = [NoEvent EXCEPT !.op = "loaded", !.id = slot]]

(* loadState(slot): the two throws, emulator.loadState, one doFrame and    *)
(* getScreen                                                               *)
LoadStateBody(s, slot) ==
  IF ~s.romLoaded \/ slot \notin DOMAIN s.saveSlots
  THEN [s EXCEPT !.ev = [NoEvent EXCEPT !.op = "throw"]]
  ELSE [getScreen(doFrame(emulatorLoadState(Overlapped(s), s.saveSlots[slot])))
          EXCEPT !.ev = [NoEvent EXCEPT !.op = "loaded", !.id = slot]]

(* the save_state tool *)
SaveStateTool ==
  /\ Idle
  /\ \E slot \in SaveSlotIds :
       svc' = SaveStateBody([svc EXCEPT !.before = Machine(svc)], slot)
  /\ SvcFrame

(* the load_state tool: loadState runs before include_screenshot is looked *)
(* at, which only selects what the tool returns                            *)
LoadStateTool ==
  /\ Idle /\ svc.stateLoads < drv.stateLoads
  /\ \E slot \in SaveSlotIds, include_screenshot \in BOOLEAN :
       LET r == LoadStateBody([svc EXCEPT !.before = Machine(svc),
                                          !.stateLoads = @ + 1], slot)
       IN svc' = [r EXCEPT !.ev.call =
                     [NoTask EXCEPT !.screenshot = include_screenshot]]
  /\ SvcFrame

LoadAnyRom ==
  \E path \in RomPaths, exists \in BOOLEAN, accepted \in BOOLEAN,
     throwAt \in ThrowFrames : SvcLoadRom(path, exists, accepted, throwAt)

SlotDurations == {2}
SlotPress == \E n \in SlotDurations : StartCall("press", "A", n, FALSE)

InitSlots ==
  /\ apu = Reset /\ slots = << >> /\ savedAt = << >> /\ pre = Reset
  /\ last = NoCall /\ calls = 0
  /\ drv = [limit |-> MaxSlotCalls, loads |-> MaxSlotLoads,
            stateLoads |-> MaxStateLoads]
  /\ rom = "unused" /\ NoWeb
  /\ svc = InitService
NextSlots ==
  \/ LoadAnyRom \/ SlotPress \/ Chunk \/ Resume \/ Resolve
  \/ SaveStateTool \/ LoadStateTool
SpecSlots == InitSlots /\ [][NextSlots]_vars

(* C21: when loadRom fails with a ROM loaded, whichever way it fails, the   *)
(* service and its machine are as they were when it was called: the same   *)
(* ROM loaded at the same                                                  *)
(* position, no frame stepped, no rom_loaded broadcast, the save slots and *)
(* the command queue unchanged.                                            *)
C21_FailedLoadLeavesMachine ==
  (svc.ev.op = "loadfail" /\ svc.before.romLoaded) => Machine(svc) = svc.before

(* C30: when loadState(slot) has returned, the machine is the snapshot of  *)
(* the slot advanced by one frame: one frame step was made, a full         *)
(* doFrame, after the restore and before the screen was encoded, with      *)
(* include_screenshot true or false; the slots are as they were.  When     *)
(* saveState(slot) has returned, no frame was stepped and the machine is   *)
(* where it was, and the slot holds its snapshot.                          *)
C30_LoadStateAdvancesOneFrame ==
  /\ svc.ev.op = "loaded" =>
       LET state == svc.before.saveSlots[svc.ev.id] IN
         /\ svc.romPath = state.romPath
         /\ svc.clock = state.clock + 1
         /\ svc.frames = svc.before.frames + 1
         /\ svc.lastStep = "full" /\ svc.shot = "full"
         /\ svc.saveSlots = svc.before.saveSlots
  /\ svc.ev.op = "saved" =>
       /\ svc.frames = svc.before.frames
       /\ svc.clock = svc.before.clock /\ svc.romPath = svc.before.romPath
       /\ svc.saveSlots[svc.ev.id] =
            [romPath |-> svc.before.romPath, clock |-> svc.before.clock]

(* load_state with include_screenshot = false, of a slot saved two frames  *)
(* earlier, before a press: the machine went back from position 7 to 5 and *)
(* on to 6.                                                                *)
C30_Witness ==
  /\ svc.ev.op = "loaded" /\ ~svc.ev.call.screenshot
  /\ svc.before.clock = 7
  /\ svc.before.saveSlots[svc.ev.id].clock = 5
  /\ svc.clock = 6


---------------------------------------------------------------------------
(* SpecBoot: the process from main() on (src/src/index.ts), in stdio mode  *)
(* startStdioServer (src/src/server/stdio.ts).  `boot' holds the           *)
(* environment, the position of main, the pending callback of              *)
(* httpServer.listen and the URLs handed to open().                        *)

ModeArgs == {"--stdio", "--sse", "none"}
NoBrowserVals == {"unset", "1", "true"}
RomPathVals == {"unset", "missing", "rejected", "good"}
ServerPortVals == {"unset", "3003"}

DefaultPort == 3001

(* process.env.SERVER_PORT ? parseInt(process.env.SERVER_PORT, 10) : 3001 *)
Port(env) == IF env.SERVER_PORT = "unset" THEN DefaultPort ELSE 3003

QuietApu(d) ==
  /\ apu = Reset /\ slots = << >> /\ savedAt = << >> /\ pre = Reset
  /\ last = NoCall /\ calls = 0 /\ drv = d
  /\ svc = "unused" /\ rom = "unused"

InitBoot ==
  /\ QuietApu("boot")
  /\ audio = "unused" /\ sync = "unused" /\ page = "unused" /\ NoPage
  /\ \E arg \in ModeArgs, nb \in NoBrowserVals, rp \in RomPathVals,
        sp \in ServerPortVals :
       boot = [arg |-> arg,
               env |-> [NO_BROWSER |-> nb, ROM_PATH |-> rp, SERVER_PORT |-> sp],
               pc |-> "main", romLoaded |-> FALSE, listening |-> FALSE,
               callback |-> FALSE, opened |-> << >>, connected |-> FALSE]

BootFrame == UNCHANGED <<apuVars, svc, rom, audio, sync, page, sse, ring>>

(* main(): --sse starts the SSE server, anything else the stdio server *)
Main ==
  /\ boot.pc = "main"
  /\ boot' = [boot EXCEPT !.pc = IF boot.arg = "--sse" THEN "sse" ELSE "stdio"]
  /\ BootFrame

(* startStdioServer, lines 15-35: the ROM of ROM_PATH; process.exit(1)     *)
(* when the file is missing or loadRom throws                              *)
AutoLoadRom ==
  /\ boot.pc = "stdio"
  /\ boot' = CASE boot.env.ROM_PATH = "unset" -> [boot EXCEPT !.pc = "app"]
               [] boot.env.ROM_PATH = "good" ->
                    [boot EXCEPT !.pc = "app", !.romLoaded = TRUE]
               [] OTHER -> [boot EXCEPT !.pc = "exited"]
  /\ BootFrame

(* lines 37-102: the Express app and httpServer.listen(port, callback) *)
Listen ==
  /\ boot.pc = "app"
  /\ boot' = [boot EXCEPT !.pc = "connect", !.listening = TRUE, !.callback = TRUE]
  /\ BootFrame

(* line 101: open(`http://localhost:${port}/${isRomLoaded() ? 'emulator' : ''}`) *)
OpenBrowser(b) ==
  [b EXCEPT !.opened =
     Append(@, [port |-> Port(b.env),
                path |-> IF b.romLoaded THEN "emulator" ELSE ""])]

(* the callback of httpServer.listen, lines 98-102 *)
ListenCallback ==
  /\ boot.callback
  /\ boot' = [OpenBrowser(boot) EXCEPT !.callback = FALSE]
  /\ BootFrame

(* lines 104-107: await server.connect(transport) *)
Connect ==
  /\ boot.pc = "connect"
  /\ boot' = [boot EXCEPT !.pc = "running", !.connected = TRUE]
  /\ BootFrame

NextBoot == Main \/ AutoLoadRom \/ Listen \/ ListenCallback \/ Connect
SpecBoot == InitBoot /\ [][NextBoot]_vars

(* C24: a server started in stdio mode with NO_BROWSER set in its          *)
(* environment never opens a browser window.                               *)
C24_NoBrowserRespected ==
  boot.env.NO_BROWSER # "unset" => boot.opened = << >>


---------------------------------------------------------------------------
(* SpecSync: WsSync (src/src/wsSync.ts), the WebSocket server at /ws.      *)
(* `sync' holds the client sockets with what was sent on each, whether the *)
(* emulator service has a ROM, and the last message handled.               *)
(*                                                                         *)
(* What a client sends is a text: one JSON.parse rejects ("garbage"), the  *)
(* JSON null, or an object, whose properties type, button and              *)
(* durationFrames may be missing ("undefined") and of any kind.            *)

MaxMessages == 1      \* messages from clients handled (SpecSync)

ClientIds == 1..3
VALID_BUTTONS ==
  {"UP", "DOWN", "LEFT", "RIGHT", "A", "B", "X", "Y", "L", "R", "START", "SELECT"}
DefaultDuration == 25

Num(v) == [kind |-> "number", value |-> v]
Str == [kind |-> "string", value |-> 0]
Undefined == [kind |-> "undefined", value |-> 0]

Garbage == [json |-> "garbage", type |-> "undefined", button |-> "undefined",
            durationFrames |-> Undefined]
Null == [Garbage EXCEPT !.json = "null"]
ClientMessages ==
  {Garbage, Null} \cup
  [json : {"object"}, type : {"button_press", "rom_loaded"},
   button : {"A", "TURBO"},
   durationFrames : {Num(10), Num(0), Str, Undefined}]

(* typeof msg.durationFrames === 'number' && msg.durationFrames > 0        *)
(*   ? msg.durationFrames : 25                                             *)
DurationOf(msg) ==
  IF msg.durationFrames.kind = "number" /\ msg.durationFrames.value > 0
  THEN msg.durationFrames.value ELSE DefaultDuration

(* JSON.parse(raw.toString()) returns, and msg.type can be read *)
Parsed(raw) == raw.json = "object"

(* msg.type === 'button_press' && VALID_BUTTONS.has(msg.button) *)
Accepted(raw) ==
  Parsed(raw) /\ raw.type = "button_press" /\ raw.button \in VALID_BUTTONS

(* { type: 'button_press', button, durationFrames, source: 'browser' } *)
Relayed(msg) ==
  [type |-> "button_press", button |-> msg.button,
   durationFrames |-> DurationOf(msg), source |-> "browser"]

(* broadcastButtonPress: { type: 'command_queue', command: {...}, source: 'mcp' } *)
CommandQueueMessage(button, durationFrames, id) ==
  [type |-> "command_queue",
   command |-> [type |-> "button_press", button |-> button,
                durationFrames |-> durationFrames, id |-> id],
   source |-> "mcp"]

(* for (const client of this.wss.clients)                                  *)
(*   if (client !== sender && client.readyState === WebSocket.OPEN)        *)
(*     client.send(outMsg)                                                 *)
SendToAllOpen(cl, sender, out) ==
  [c \in DOMAIN cl |->
     IF cl[c].readyState = "OPEN"
     THEN [cl[c] EXCEPT !.sent = Append(@, out)] ELSE cl[c]]

SendToOthers(cl, sender, out) ==
  [c \in DOMAIN cl |->
     IF c # sender /\ cl[c].readyState = "OPEN"
     THEN [cl[c] EXCEPT !.sent = Append(@, out)] ELSE cl[c]]

(* for (const client of this.wss.clients)                                  *)
(*   if (client.readyState === WebSocket.OPEN) client.send(msg)            *)
SendToAll(cl, out) ==
  [c \in DOMAIN cl |->
     IF cl[c].readyState = "OPEN"
     THEN [cl[c] EXCEPT !.sent = Append(@, out)] ELSE cl[c]]

NoSyncEvent ==
  [op |-> "none", sender |-> 0, raw |-> Garbage, replayed |-> FALSE,
   threw |-> FALSE, before |-> << >>, button |-> "none", durationFrames |-> 0]

(* ws.on('message') and handleClientMessage(msg, sender).  The replay      *)
(* (pressButtonLocal, when the service has a ROM) may throw; the throw is  *)
(* caught and logged.                                                      *)
HandleClientMessage(s, sender, raw, throws) ==
  LET e == [NoSyncEvent EXCEPT !.op = "message", !.sender = sender, !.raw = raw,
                               !.before = s.clients]
  IN IF ~Accepted(raw) THEN [s EXCEPT !.ev = e, !.handled = @ + 1]
     ELSE LET replay == s.hasService /\ s.romLoaded IN
          [s EXCEPT
            !.clients = SendToOthers(@, sender, Relayed(raw)),
            !.replays = IF replay THEN @ + 1 ELSE @,
            !.handled = @ + 1,
            !.ev = [e EXCEPT !.replayed = replay, !.threw = replay /\ throws]]

(* broadcastButtonPress(button, durationFrames) *)
broadcastButtonPress(s, button, durationFrames) ==
  LET id == s.lastBroadcastCommandId + 1 IN
  [s EXCEPT
    !.lastBroadcastCommandId = id,
    !.clients = SendToAll(@, CommandQueueMessage(button, durationFrames, id)),
    !.ev = [NoSyncEvent EXCEPT !.op = "broadcast", !.before = s.clients,
                               !.button = button,
                               !.durationFrames = durationFrames]]

InitSync ==
  /\ QuietApu("sync")
  /\ audio = "unused" /\ boot = "unused" /\ page = "unused" /\ NoPage
  /\ sync = [clients |-> [c \in ClientIds |->
                            [readyState |-> "CONNECTING", sent |-> << >>]],
             hasService |-> FALSE, romLoaded |-> FALSE, replays |-> 0,
             handled |-> 0, lastBroadcastCommandId |-> 0,
             ev |-> NoSyncEvent]

SyncFrame == UNCHANGED <<apuVars, svc, rom, audio, boot, page, sse, ring>>

(* a socket of wss.clients moves on: CONNECTING, OPEN, CLOSED *)
NextReadyState(r) == IF r = "CONNECTING" THEN "OPEN" ELSE "CLOSED"

SocketMoves ==
  /\ \E c \in ClientIds :
       /\ sync.clients[c].readyState # "CLOSED"
       /\ sync' = [sync EXCEPT !.clients[c].readyState = NextReadyState(@)]
  /\ SyncFrame

(* setEmulatorService(emulatorService) *)
SetEmulatorService ==
  /\ ~sync.hasService
  /\ sync' = [sync EXCEPT !.hasService = TRUE,
                          !.ev = [NoSyncEvent EXCEPT !.op = "service"]]
  /\ SyncFrame

(* a ROM is loaded into the service's emulator *)
SyncRomLoaded ==
  /\ sync.hasService /\ ~sync.romLoaded
  /\ sync' = [sync EXCEPT !.romLoaded = TRUE,
                          !.ev = [NoSyncEvent EXCEPT !.op = "rom"]]
  /\ SyncFrame

ClientMessage ==
  /\ sync.handled < MaxMessages
  /\ \E c \in ClientIds, raw \in ClientMessages, throws \in BOOLEAN :
       /\ sync.clients[c].readyState = "OPEN"
       /\ sync' = HandleClientMessage(sync, c, raw, throws)
  /\ SyncFrame

NextSync ==
  \/ SocketMoves \/ SetEmulatorService \/ SyncRomLoaded \/ ClientMessage
SpecSync == InitSync /\ [][NextSync]_vars

(* C29: when WsSync has handled a message of client c: if it was an object *)
(* of type button_press with a valid button, every other client whose      *)
(* socket was open got the relayed message once more, c and the clients    *)
(* not open got nothing, with or without a ROM and whether or not the      *)
(* replay threw, and the relayed duration is msg.durationFrames when that  *)
(* is a number above 0 and 25 otherwise; the replay was made exactly when  *)
(* a ROM was loaded.  Any other message (unknown button, another type,     *)
(* text that does not parse) was neither replayed nor relayed.             *)
C29_RelayToOthers ==
  sync.ev.op = "message" =>
    LET e == sync.ev
        raw == e.raw
        valid == raw.json = "object" /\ raw.type = "button_press"
                   /\ raw.button \in VALID_BUTTONS
        d == IF raw.durationFrames.kind = "number" /\ raw.durationFrames.value > 0
             THEN raw.durationFrames.value ELSE 25
        out == [type |-> "button_press", button |-> raw.button,
                durationFrames |-> d, source |-> "browser"]
    IN /\ \A c \in ClientIds :
            sync.clients[c].sent =
              IF valid /\ c # e.sender /\ e.before[c].readyState = "OPEN"
              THEN Append(e.before[c].sent, out)
              ELSE e.before[c].sent
       /\ e.replayed = (valid /\ sync.hasService /\ sync.romLoaded)
       /\ ~valid => ~e.threw

(* A valid press of client 1 with durationFrames 0, its replay throwing:   *)
(* client 2, open, got the message with duration 25; client 3, not open,   *)
(* and client 1 got nothing.                                               *)
C29_Witness ==
  /\ sync.ev.op = "message" /\ sync.ev.sender = 1
  /\ sync.ev.raw.button = "A" /\ sync.ev.raw.type = "button_press"
  /\ sync.ev.raw.durationFrames = Num(0)
  /\ sync.ev.threw
  /\ sync.clients[1].readyState = "OPEN"
  /\ sync.clients[2].readyState = "OPEN" /\ Len(sync.clients[2].sent) = 1
  /\ sync.clients[2].sent[1].durationFrames = 25
  /\ sync.clients[3].readyState # "OPEN" /\ sync.clients[3].sent = << >>
  /\ sync.clients[1].sent = << >>


---------------------------------------------------------------------------
(* SpecPage: the page of /emulator (src/unnamed/part_001 838-1068) on      *)
(* client socket 1 of WsSync.  `page' holds the pad of the page's          *)
(* emulator, the input tracking (userHeldButtons, mcpHoldCount), the       *)
(* pending setTimeout callbacks per button and syncWs; besides, as         *)
(* history, what the user physically does: the keys held, the button the   *)
(* pointer is over, whether it is down and on which button it went down,   *)
(* and the pointer presses no message has reported yet.                    *)

MaxBroadcasts == 1    \* broadcastButtonPress calls (SpecPage)

PageSocket == 1       \* the page's socket among wss.clients
OtherSocket == 2      \* the socket of another browser
HeldFrames == {30}

NoPageEvent ==
  [op |-> "none", btn |-> "none", sent |-> FALSE, padBefore |-> {},
   pendingBefore |-> {}, msg |-> Null]

InitPageState ==
  [pad |-> {}, userHeldButtons |-> {},
   mcpHoldCount |-> [b \in Buttons |-> 0],
   timers |-> [b \in Buttons |-> 0],
   keyDownTime |-> {}, pointerDownTime |-> {},
   syncWs |-> "null", received |-> 0,
   keysDown |-> {}, pointerOver |-> "none", pointerIsDown |-> FALSE,
   pointerHeld |-> "none", pending |-> {},
   ev |-> NoPageEvent]

InitPage ==
  /\ QuietApu("page")
  /\ audio = "unused" /\ boot = "unused" /\ NoPage
  /\ sync = [clients |-> [c \in ClientIds |->
                            [readyState |-> "CONNECTING", sent |-> << >>]],
             hasService |-> FALSE, romLoaded |-> FALSE, replays |-> 0,
             handled |-> 0, lastBroadcastCommandId |-> 0,
             ev |-> NoSyncEvent]
  /\ page = InitPageState

PageFrame == UNCHANGED <<apuVars, svc, rom, audio, boot, sse, ring>>

Event(p, op, btn) ==
  [NoPageEvent EXCEPT !.op = op, !.btn = btn, !.padBefore = p.pad,
                      !.pendingBefore = p.pending]

(* sendButtonToServer(btnId, durationFrames): sent when syncWs is set and  *)
(* its readyState is OPEN                                                  *)
CanSend(p, sy) ==
  p.syncWs = "set" /\ sy.clients[PageSocket].readyState = "OPEN"

(* document keydown, a key of keyMap *)
OnKeyDown(p, btn) ==
  [p EXCEPT !.pad = @ \cup {btn},
            !.keyDownTime = IF btn \in p.userHeldButtons THEN @ ELSE @ \cup {btn},
            !.userHeldButtons = @ \cup {btn}]

(* document keyup, a key of keyMap *)
OnKeyUp(p, sy, btn) ==
  [p EXCEPT !.keyDownTime = @ \ {btn},
            !.userHeldButtons = @ \ {btn},
            !.pad = IF p.mcpHoldCount[btn] = 0 THEN @ \ {btn} ELSE @,
            !.ev.sent = CanSend(p, sy)]

(* pointerdown on an on-screen button *)
OnPointerDown(p, btn) ==
  [p EXCEPT !.pad = @ \cup {btn}, !.pointerDownTime = @ \cup {btn}]

(* onRelease, the listener of pointerup and of pointerleave *)
OnRelease(p, sy, btn) ==
  [p EXCEPT !.pad = @ \ {btn}, !.pointerDownTime = @ \ {btn},
            !.ev.sent = CanSend(p, sy)]

(* the names of wsBtnNameToId *)
KnownButton(name) == name \in VALID_BUTTONS

(* ws.onmessage: 'button_press' presses and schedules the release,         *)
(* 'rom_loaded' reloads the ROM, anything else is dropped                  *)
OnMessage(p, msg) ==
  IF msg.type = "button_press" /\ KnownButton(msg.button) /\ msg.button \in Buttons
  THEN [p EXCEPT !.pad = @ \cup {msg.button},
                 !.mcpHoldCount[msg.button] = @ + 1,
                 !.timers[msg.button] = @ + 1]
  ELSE p

(* the setTimeout callback of a remote press of btn *)
OnTimeout(p, btn) ==
  LET n == p.mcpHoldCount[btn] - 1 IN
  [p EXCEPT !.timers[btn] = @ - 1,
            !.mcpHoldCount[btn] = IF n <= 0 THEN 0 ELSE n,
            !.pad = IF n <= 0 /\ btn \notin p.userHeldButtons THEN @ \ {btn} ELSE @]

KeyDown ==
  /\ \E btn \in Buttons :
       page' = [OnKeyDown([page EXCEPT !.ev = Event(page, "keydown", btn)], btn)
                  EXCEPT !.keysDown = @ \cup {btn}]
  /\ UNCHANGED sync /\ PageFrame

KeyUp ==
  /\ \E btn \in page.keysDown :
       page' = [OnKeyUp([page EXCEPT !.ev = Event(page, "keyup", btn)], sync, btn)
                  EXCEPT !.keysDown = @ \ {btn}]
  /\ UNCHANGED sync /\ PageFrame

(* the pointer moves onto a button: no listener *)
PointerEnter ==
  /\ page.pointerOver = "none"
  /\ \E btn \in Buttons :
       page' = [page EXCEPT !.pointerOver = btn, !.ev = Event(page, "enter", btn)]
  /\ UNCHANGED sync /\ PageFrame

PointerDown ==
  /\ page.pointerOver # "none" /\ ~page.pointerIsDown
  /\ LET btn == page.pointerOver IN
       page' = [OnPointerDown([page EXCEPT !.ev = Event(page, "pointerdown", btn)], btn)
                  EXCEPT !.pointerIsDown = TRUE, !.pointerHeld = btn,
                         !.pending = @ \cup {btn}]
  /\ UNCHANGED sync /\ PageFrame

Released(p, btn) ==
  [p EXCEPT !.pointerHeld = IF @ = btn THEN "none" ELSE @,
            !.pending = IF p.ev.sent THEN @ \ {btn} ELSE @]

PointerUp ==
  /\ page.pointerIsDown
  /\ page' =
       IF page.pointerOver = "none"
       THEN [page EXCEPT !.pointerIsDown = FALSE, !.pointerHeld = "none",
                         !.ev = Event(page, "up elsewhere", "none")]
       ELSE LET btn == page.pointerOver
                r == OnRelease([page EXCEPT !.ev = Event(page, "pointerup", btn)],
                               sync, btn)
            IN [Released(r, btn) EXCEPT !.pointerIsDown = FALSE,
                                        !.pointerHeld = "none"]
  /\ UNCHANGED sync /\ PageFrame

PointerLeave ==
  /\ page.pointerOver # "none"
  /\ LET btn == page.pointerOver
         r == OnRelease([page EXCEPT !.ev = Event(page, "pointerleave", btn)],
                        sync, btn)
     IN page' = [Released(r, btn) EXCEPT !.pointerOver = "none"]
  /\ UNCHANGED sync /\ PageFrame

(* ws.onopen: syncWs = ws *)
PageSocketOpens ==
  /\ sync.clients[PageSocket].readyState = "CONNECTING"
  /\ sync' = [sync EXCEPT !.clients[PageSocket].readyState = "OPEN"]
  /\ page' = [page EXCEPT !.syncWs = "set", !.ev = Event(page, "open", "none")]
  /\ PageFrame

(* ws.onclose: syncWs = null *)
PageSocketCloses ==
  /\ sync.clients[PageSocket].readyState = "OPEN"
  /\ sync' = [sync EXCEPT !.clients[PageSocket].readyState = "CLOSED"]
  /\ page' = [page EXCEPT !.syncWs = "null", !.ev = Event(page, "close", "none")]
  /\ PageFrame

OtherSocketOpens ==
  /\ sync.clients[OtherSocket].readyState = "CONNECTING"
  /\ sync' = [sync EXCEPT !.clients[OtherSocket].readyState = "OPEN"]
  /\ UNCHANGED page /\ PageFrame

(* a press in the other browser, relayed by WsSync *)
OtherBrowserPress ==
  /\ sync.handled < MaxMessages
  /\ sync.clients[OtherSocket].readyState = "OPEN"
  /\ \E btn \in Buttons, n \in HeldFrames :
       sync' = HandleClientMessage(sync, OtherSocket,
                 [json |-> "object", type |-> "button_press", button |-> btn,
                  durationFrames |-> Num(n)], FALSE)
  /\ UNCHANGED page /\ PageFrame

(* pressButtonAsync of the service: wsSync.broadcastButtonPress *)
McpButtonPress ==
  /\ sync.lastBroadcastCommandId < MaxBroadcasts
  /\ \E n \in SyncDurations :
       sync' = broadcastButtonPress(sync, "A", n)
  /\ UNCHANGED page /\ PageFrame

(* the next message on the page's socket reaches ws.onmessage *)
Receive ==
  /\ page.received < Len(sync.clients[PageSocket].sent)
  /\ LET msg == sync.clients[PageSocket].sent[page.received + 1] IN
       page' = [OnMessage([page EXCEPT !.ev = [Event(page, "message", "none")
                                                  EXCEPT !.msg = msg]], msg)
                  EXCEPT !.received = @ + 1]
  /\ UNCHANGED sync /\ PageFrame

Timeout ==
  /\ \E btn \in Buttons :
       /\ page.timers[btn] > 0
       /\ page' = OnTimeout([page EXCEPT !.ev = Event(page, "timeout", btn)], btn)
  /\ UNCHANGED sync /\ PageFrame

NextPage ==
  \/ KeyDown \/ KeyUp \/ PointerEnter \/ PointerDown \/ PointerUp \/ PointerLeave
  \/ PageSocketOpens \/ PageSocketCloses \/ OtherSocketOpens
  \/ OtherBrowserPress \/ McpButtonPress \/ Receive \/ Timeout
SpecPage == InitPage /\ [][NextPage]_vars

(* C26: when the page has taken in the message WsSync broadcast for a      *)
(* pressButtonAsync(button, n) of the service, the button is pressed on    *)
(* the page's pad and its release is scheduled.                            *)
C26_McpPressReachesPage ==
  (page.ev.op = "message" /\ page.ev.msg.source = "mcp") =>
     /\ page.ev.msg.command.button \in page.pad
     /\ page.timers[page.ev.msg.command.button] > 0

(* C27: whenever a button leaves the page's pad, the user holds it neither *)
(* by key nor by pointer and no remote hold of it is pending; and          *)
(* mcpHoldCount of every button is the number of its pending expiry        *)
(* timers, never negative.                                                 *)
C27_ReleaseOnlyWhenFree ==
  /\ \A btn \in page.ev.padBefore \ page.pad :
       /\ btn \notin page.keysDown
       /\ page.pointerHeld # btn
       /\ page.mcpHoldCount[btn] = 0
  /\ \A btn \in Buttons :
       page.mcpHoldCount[btn] = page.timers[btn] /\ page.mcpHoldCount[btn] >= 0

(* C28: a button_press message leaves onRelease only for a button on which *)
(* the pointer went down and whose press no earlier message reported.      *)
C28_OneMessagePerPress ==
  (page.ev.op \in {"pointerup", "pointerleave"} /\ page.ev.sent) =>
     page.ev.btn \in page.ev.pendingBefore

---------------------------------------------------------------------------
(* SpecSaves: saveState and loadState over two slots, around loadRom of    *)
(* two ROMs (no press in flight).  svc.ev.id is the slot of the call,      *)
(* svc.ev.call.op the method.                                              *)

SlotNumbers == {0, 1}

Called(s, method, slot) ==
  [s EXCEPT !.ev.id = slot, !.ev.call = [NoTask EXCEPT !.op = method]]

SaveAnySlot ==
  /\ Idle
  /\ \E slot \in SlotNumbers :
       svc' = Called(SaveStateBody([svc EXCEPT !.before = Machine(svc)], slot),
                     "saveState", slot)
  /\ SvcFrame

LoadAnySlot ==
  /\ Idle /\ svc.stateLoads < drv.stateLoads
  /\ \E slot \in SlotNumbers :
       svc' = Called(LoadStateBody([svc EXCEPT !.before = Machine(svc),
                                               !.stateLoads = @ + 1], slot),
                     "loadState", slot)
  /\ SvcFrame

InitSaves ==
  /\ apu = Reset /\ slots = << >> /\ savedAt = << >> /\ pre = Reset
  /\ last = NoCall /\ calls = 0
  /\ drv = [limit |-> 0, loads |-> MaxSlotLoads, stateLoads |-> MaxStateLoads]
  /\ rom = "unused" /\ NoWeb
  /\ svc = InitService
NextSaves == LoadAnyRom \/ SaveAnySlot \/ LoadAnySlot
SpecSaves == InitSaves /\ [][NextSaves]_vars

(* C31: saveState(k) that returns sets slot k and leaves every other slot  *)
(* as it was; loadState(k) throws only with no ROM loaded or with slot k   *)
(* never saved, and then nothing was restored and no frame stepped;        *)
(* loadState that returns leaves the slots as they were; loadRom, failed   *)
(* or not, leaves the slots as they were, so that loadState restores a     *)
(* snapshot saved under another ROM.                                       *)
C31_SlotsKept ==
  /\ (svc.ev.op = "saved") =>
       /\ DOMAIN svc.saveSlots = DOMAIN svc.before.saveSlots \cup {svc.ev.id}
       /\ \A j \in DOMAIN svc.saveSlots \ {svc.ev.id} :
            svc.saveSlots[j] = svc.before.saveSlots[j]
  /\ (svc.ev.op = "throw" /\ svc.ev.call.op = "loadState") =>
       /\ ~svc.before.romLoaded \/ svc.ev.id \notin DOMAIN svc.before.saveSlots
       /\ Machine(svc) = svc.before
  /\ (svc.ev.op = "loaded") =>
       /\ svc.ev.id \in DOMAIN svc.before.saveSlots
       /\ svc.saveSlots = svc.before.saveSlots
  /\ (svc.ev.op \in {"screenshot", "loadfail"}) =>
       svc.saveSlots = svc.before.saveSlots

(* Slot 0 saved under a.sfc, b.sfc loaded, slot 1 saved under b.sfc, and   *)
(* loadState(0) returned: both slots are as they were.                     *)
C31_Witness ==
  /\ svc.ev.op = "loaded" /\ svc.ev.id = 0
  /\ svc.before.romPath = "b.sfc"
  /\ DOMAIN svc.saveSlots = {0, 1}
  /\ svc.saveSlots[0].romPath = "a.sfc" /\ svc.saveSlots[1].romPath = "b.sfc"
  /\ svc.romPath = "a.sfc"

---------------------------------------------------------------------------
(* SpecNoRom: every method of EmulatorService that checks isRomLoaded(),   *)
(* called before and after a ROM is loaded, with a WsSync set: `sync' is   *)
(* the WsSync of the service, one of its sockets open.  svc.ev.call.op     *)
(* names the method of a call, but for an async call that started: there   *)
(* svc.ev.call is the call.                                                *)

MaxNoRomCalls == 1      \* calls that pass the ROM check (SpecNoRom)
MaxNoRomLoads == 1      \* loadRom calls (SpecNoRom)

NoRomButtons == {"A"}
NoRomDurations == {2}
RamMethods == {"dumpRam", "readRamByte", "checkDialogState"}

Named(s, method) ==
  IF s.ev.op = "start" THEN s
  ELSE [s EXCEPT !.ev.call = [NoTask EXCEPT !.op = method]]

Threw(s) == s.ev.op \in {"throw", "silent"}

(* broadcastWaitFrames(durationFrames) *)
broadcastWaitFrames(s, durationFrames) ==
  LET id == s.lastBroadcastCommandId + 1 IN
  [s EXCEPT
    !.lastBroadcastCommandId = id,
    !.clients = SendToAll(@, [type |-> "command_queue",
                              command |-> [type |-> "wait_frames",
                                           durationFrames |-> durationFrames,
                                           id |-> id],
                              source |-> "mcp"])]

(* broadcastAdvanceFrame() *)
broadcastAdvanceFrame(s) ==
  LET id == s.lastBroadcastCommandId + 1 IN
  [s EXCEPT
    !.lastBroadcastCommandId = id,
    !.clients = SendToAll(@, [type |-> "command_queue",
                              command |-> [type |-> "advance_frame",
                                           durationFrames |-> 1, id |-> id],
                              source |-> "mcp"])]

(* broadcastRomLoaded(initialFrames) *)
broadcastRomLoaded(s, initialFrames) ==
  [s EXCEPT !.clients = SendToAll(@, [type |-> "rom_loaded",
                                      initialFrames |-> initialFrames])]

(* emulator.pressButton(button, durationFrames): the button is held for    *)
(* durationFrames frames and released                                      *)
emulatorPressButton(s, b, n) ==
  setButtonReleased(Frames(setButtonPressed(s, b), n), b)

(* pressButton(button, durationFrames), up to the broadcast *)
pressButtonBody(s, b, n) ==
  IF ~s.romLoaded THEN [s EXCEPT !.ev = [NoEvent EXCEPT !.op = "throw"]]
  ELSE [emulatorPressButton(Overlapped(s), b, n) EXCEPT
          !.started = @ + 1, !.ev = [NoEvent EXCEPT !.op = "pressed"]]

(* pressButtonLocal(button, durationFrames) *)
pressButtonLocalBody(s, b, n) ==
  IF ~s.romLoaded THEN [s EXCEPT !.ev = [NoEvent EXCEPT !.op = "silent"]]
  ELSE [emulatorPressButton(Overlapped(s), b, n) EXCEPT
          !.started = @ + 1, !.ev = [NoEvent EXCEPT !.op = "pressed"]]

(* waitFrames(durationFrames), up to the broadcast *)
waitFramesBody(s, n) ==
  IF ~s.romLoaded THEN [s EXCEPT !.ev = [NoEvent EXCEPT !.op = "throw"]]
  ELSE [Frames(Overlapped(s), n) EXCEPT
          !.started = @ + 1, !.ev = [NoEvent EXCEPT !.op = "wait"]]

(* advanceFrameAndGetScreen(), up to the broadcast *)
advanceFrameBody(s) ==
  IF ~s.romLoaded THEN [s EXCEPT !.ev = [NoEvent EXCEPT !.op = "throw"]]
  ELSE [advanceFrameAndGetScreen(Overlapped(s)) EXCEPT
          !.started = @ + 1, !.ev = [NoEvent EXCEPT !.op = "screenshot"]]

(* getScreen() *)
getScreenBody(s) ==
  IF ~s.romLoaded THEN [s EXCEPT !.ev = [NoEvent EXCEPT !.op = "throw"]]
  ELSE [getScreen(s) EXCEPT !.ev = [NoEvent EXCEPT !.op = "screenshot"]]

(* dumpRam, readRamByte, checkDialogState: reads of Work RAM *)
ramReadBody(s) ==
  IF ~s.romLoaded THEN [s EXCEPT !.ev = [NoEvent EXCEPT !.op = "throw"]]
  ELSE [s EXCEPT !.ev = [NoEvent EXCEPT !.op = "read"]]

NoRomFrame == UNCHANGED <<apuVars, rom, audio, boot, page, sse, ring>>

LoadRomSync ==
  /\ Idle /\ svc.loads < drv.loads
  /\ \E exists \in BOOLEAN, throwAt \in ThrowFrames :
       LET r == LoadRomBody([svc EXCEPT !.before = Machine(svc), !.loads = @ + 1],
                            "a.sfc", exists, TRUE, throwAt)
       IN /\ svc' = r
          /\ sync' = IF r.ev.op = "screenshot" THEN broadcastRomLoaded(sync, 5)
                     ELSE sync
  /\ NoRomFrame

PressButton ==
  /\ CanStart
  /\ \E b \in NoRomButtons, n \in NoRomDurations :
       LET r == pressButtonBody(svc, b, n) IN
         /\ svc' = Named(r, "pressButton")
         /\ sync' = IF Threw(r) THEN sync ELSE broadcastButtonPress(sync, b, n)
  /\ NoRomFrame

PressButtonLocal ==
  /\ CanStart
  /\ \E b \in NoRomButtons, n \in NoRomDurations :
       svc' = Named(pressButtonLocalBody(svc, b, n), "pressButtonLocal")
  /\ UNCHANGED sync
  /\ NoRomFrame

PressButtonAsync ==
  /\ CanStart
  /\ \E b \in NoRomButtons, n \in NoRomDurations :
       LET r == StartBody(svc, "press", b, n, FALSE) IN
         /\ svc' = Named(r, "pressButtonAsync")
         /\ sync' = IF Threw(r) THEN sync ELSE broadcastButtonPress(sync, b, n)
  /\ NoRomFrame

WaitFramesAsync ==
  /\ CanStart
  /\ \E n \in NoRomDurations :
       LET r == StartBody(svc, "wait", "none", n, FALSE) IN
         /\ svc' = Named(r, "waitFramesAsync")
         /\ sync' = IF Threw(r) THEN sync ELSE broadcastWaitFrames(sync, n)
  /\ NoRomFrame

WaitFrames ==
  /\ CanStart
  /\ \E n \in NoRomDurations :
       LET r == waitFramesBody(svc, n) IN
         /\ svc' = Named(r, "waitFrames")
         /\ sync' = IF Threw(r) THEN sync ELSE broadcastWaitFrames(sync, n)
  /\ NoRomFrame

AdvanceFrame ==
  /\ CanStart
  /\ LET r == advanceFrameBody(svc) IN
       /\ svc' = Named(r, "advanceFrameAndGetScreen")
       /\ sync' = IF Threw(r) THEN sync ELSE broadcastAdvanceFrame(sync)
  /\ NoRomFrame

GetScreen ==
  /\ Idle
  /\ svc' = Named(getScreenBody(svc), "getScreen")
  /\ UNCHANGED sync
  /\ NoRomFrame

SaveStateCall ==
  /\ Idle
  /\ \E slot \in SaveSlotIds :
       svc' = Named(SaveStateBody([svc EXCEPT !.before = Machine(svc)], slot),
                    "saveState")
  /\ UNCHANGED sync
  /\ NoRomFrame

LoadStateCall ==
  /\ Idle /\ svc.stateLoads < drv.stateLoads
  /\ \E slot \in SaveSlotIds :
       LET r == LoadStateBody([svc EXCEPT !.before = Machine(svc)], slot)
       IN svc' = Named([r EXCEPT !.stateLoads =
                           IF Threw(r) THEN @ ELSE @ + 1], "loadState")
  /\ UNCHANGED sync
  /\ NoRomFrame

RamRead ==
  /\ Idle
  /\ \E method \in RamMethods : svc' = Named(ramReadBody(svc), method)
  /\ UNCHANGED sync
  /\ NoRomFrame

InitNoRom ==
  /\ apu = Reset /\ slots = << >> /\ savedAt = << >> /\ pre = Reset
  /\ last = NoCall /\ calls = 0
  /\ drv = [limit |-> MaxNoRomCalls, loads |-> MaxNoRomLoads, stateLoads |-> 1]
  /\ rom = "unused"
  /\ audio = "unused" /\ boot = "unused" /\ page = "unused" /\ NoPage
  /\ svc = InitService
  /\ sync = [clients |-> [c \in ClientIds |->
                            [readyState |-> IF c = 1 THEN "OPEN" ELSE "CONNECTING",
                             sent |-> << >>]],
             hasService |-> TRUE, romLoaded |-> FALSE, replays |-> 0,
             handled |-> 0, lastBroadcastCommandId |-> 0,
             ev |-> NoSyncEvent]

NextNoRom ==
  \/ LoadRomSync \/ PressButton \/ PressButtonLocal \/ PressButtonAsync
  \/ WaitFramesAsync \/ WaitFrames \/ AdvanceFrame \/ GetScreen
  \/ SaveStateCall \/ LoadStateCall \/ RamRead
  \/ Chunk \/ Resume \/ Resolve
SpecNoRom == InitNoRom /\ [][NextNoRom]_vars

NoRomMethods ==
  {"pressButton", "pressButtonAsync", "waitFrames", "waitFramesAsync",
   "getScreen", "advanceFrameAndGetScreen", "saveState", "loadState"}
    \cup RamMethods

(* C32: while no ROM is loaded no frame has been stepped, no button is     *)
(* held, the command queue and the save slots are empty, no call is in     *)
(* flight and nothing has been broadcast, whatever methods were called;    *)
(* the call made last threw 'No ROM loaded' (pressButtonLocal: returned    *)
(* silently) or was a loadRom that failed.                                 *)
C32_NoRomNoEffect ==
  ~svc.romLoaded =>
     /\ svc.frames = 0 /\ svc.clock = 0 /\ svc.pressed = {}
     /\ svc.commandQueue = << >> /\ svc.saveSlots = << >>
     /\ svc.inflight = << >> /\ svc.running = 0 /\ svc.started = 0
     /\ sync.lastBroadcastCommandId = 0
     /\ \A c \in ClientIds : sync.clients[c].sent = << >>
     /\ svc.ev.op \in {"none", "throw", "silent", "loadfail"}
     /\ svc.ev.op = "throw" => svc.ev.call.op \in NoRomMethods
     /\ svc.ev.op = "silent" => svc.ev.call.op = "pressButtonLocal"

(* After a loadRom of a missing file, pressButtonAsync threw. *)
C32_Witness ==
  /\ ~svc.romLoaded /\ svc.loads = 1
  /\ svc.ev.op = "throw" /\ svc.ev.call.op = "pressButtonAsync"

(* pressButtonLocal returned silently with no ROM loaded. *)
C32_WitnessLocal ==
  /\ ~svc.romLoaded
  /\ svc.ev.op = "silent" /\ svc.ev.call.op = "pressButtonLocal"

---------------------------------------------------------------------------
(* SpecAsync: the chunk loops of pressButtonAsync and waitFramesAsync      *)
(* (110-137, 174-200) with the clock as an input.  A pass of the outer     *)
(* loop reads startTime and then tests performance.now() - startTime < 4   *)
(* before each frame: `budget' is the number of tests that pass (0: 4 ms   *)
(* or more lie between the two first readings), `yield' whether more than  *)
(* 8 ms have passed since lastYieldTime.  svc.before is the machine as the *)
(* pass found it, c.yields whether call c has yielded.  The event loop     *)
(* runs every setImmediate callback, the thread goes on with the running   *)
(* call, and the clock is not late at the first test of every pass from    *)
(* some pass on.                                                           *)

MaxAsyncCalls == 1      \* async calls (SpecAsync)

AsyncDurations == {1, 2, 3}
Budgets == {0, 1, 2}

AsyncLoadRom == SvcLoadRom("a.sfc", TRUE, TRUE, 5)
AsyncPress == \E n \in AsyncDurations : StartCall("press", "A", n, FALSE)
AsyncWait == \E n \in AsyncDurations : StartCall("wait", "none", n, FALSE)

BudgetChunk(budget) ==
  /\ svc.running # 0
  /\ LET i == svc.running IN
       /\ svc.inflight[i].pc = "loop"
       /\ svc.inflight[i].framesProcessed < svc.inflight[i].durationFrames
       /\ \E yield \in BOOLEAN :
            LET r == RunChunk([svc EXCEPT !.before = Machine(svc)], i, budget)
                y == IF yield
                     THEN [r EXCEPT !.inflight[i].pc = "yielded",
                                    !.inflight[i].yields = 1, !.running = 0]
                     ELSE r
            IN svc' = [y EXCEPT !.ev = [op |-> IF budget = 0 THEN "late" ELSE "chunk",
                                        id |-> i, call |-> y.inflight[i]]]
  /\ SvcFrame

TimedChunk == \E budget \in Budgets : BudgetChunk(budget)
ProgressChunk == \E budget \in Budgets \ {0} : BudgetChunk(budget)

InitAsync ==
  /\ apu = Reset /\ slots = << >> /\ savedAt = << >> /\ pre = Reset
  /\ last = NoCall /\ calls = 0
  /\ drv = [limit |-> MaxAsyncCalls, loads |-> 1, stateLoads |-> 0]
  /\ rom = "unused" /\ NoWeb
  /\ svc = InitService
NextAsync ==
  \/ AsyncLoadRom \/ AsyncPress \/ AsyncWait
  \/ TimedChunk \/ Resume \/ Resolve
SpecAsync ==
  /\ InitAsync /\ [][NextAsync]_vars
  /\ WF_vars(Resume) /\ WF_vars(Resolve) /\ SF_vars(ProgressChunk)

Stepped == svc.frames - svc.before.frames
InFlight(i) == i \in DOMAIN svc.inflight

(* C33 as stated: every pass of the outer loop steps at least one frame,   *)
(* whatever the clock readings are, and every call resolves.               *)
C33_AsStated ==
  /\ [](svc.ev.op \in {"chunk", "late"} => Stepped >= 1)
  /\ \A i \in 1..MaxAsyncCalls : InFlight(i) ~> ~InFlight(i)

(* C33: pressButtonAsync(button, n) and waitFramesAsync(n), n >= 1,        *)
(* resolve, having stepped exactly n frames of their own, when every yield *)
(* is resumed and the clock is not late at the first test of every pass    *)
(* from some pass on: a pass steps at least one frame when its first test  *)
(* of the budget passes, and none when 4 ms or more lie between reading    *)
(* startTime and that test.                                                *)
C33_Resolves ==
  /\ [](svc.ev.op = "chunk" => Stepped >= 1)
  /\ [](svc.ev.op = "late" => Stepped = 0)
  /\ [](svc.ev.op = "resolve" =>
          /\ svc.ev.call.framesProcessed = svc.ev.call.durationFrames
          /\ svc.ev.call.alone =>
               svc.frames = svc.ev.call.atCall.frames + svc.ev.call.durationFrames)
  /\ \A i \in 1..MaxAsyncCalls : InFlight(i) ~> ~InFlight(i)

(* A press of 3 frames that yielded on the way has resolved: 3 frames      *)
(* after the 5 of loadRom.                                                 *)
C33_Witness ==
  /\ svc.ev.op = "resolve" /\ svc.ev.call.op = "press"
  /\ svc.ev.call.durationFrames = 3 /\ svc.ev.call.yields = 1
  /\ svc.frames = 5 + 3

(* a pass in which the clock was late: no frame stepped *)
C33_WitnessLate ==
  /\ svc.ev.op = "late" /\ Stepped = 0
  /\ svc.ev.call.framesProcessed = 1 /\ svc.ev.call.durationFrames = 3

---------------------------------------------------------------------------
(* SpecSse: startSseServer (src/src/server/sse.ts), the handlers of        *)
(* GET /mcp and POST /messages.  sse.transports is the table (the session  *)
(* ids that are its keys; the value of key id is the transport of session  *)
(* id), sse.sessions the state of each transport made so far: connecting   *)
(* (the handler awaits server.connect), connected, failed (server.connect  *)
(* rejected), closed (transport.onclose has run).                          *)

MaxSessions == 3        \* GET /mcp requests (SpecSse)

NoSessionId == 0        \* req.query.sessionId is undefined
SessionIds == 1..MaxSessions
PostedIds == 0..(MaxSessions + 1)

NoSseEvent == [op |-> "none", sessionId |-> 0, status |-> 0, handledBy |-> 0]

InitSse ==
  /\ QuietApu("sse")
  /\ audio = "unused" /\ boot = "unused" /\ sync = "unused" /\ page = "unused"
  /\ ring = "unused"
  /\ sse = [transports |-> {}, sessions |-> << >>, ev |-> NoSseEvent]

SseFrame == UNCHANGED <<apuVars, svc, rom, audio, boot, sync, page, ring>>

(* app.get('/mcp'), up to await server.connect(transport) *)
GetMcp ==
  /\ Len(sse.sessions) < MaxSessions
  /\ LET sessionId == Len(sse.sessions) + 1 IN
       sse' = [sse EXCEPT !.transports = @ \cup {sessionId},
                          !.sessions = Append(@, "connecting"),
                          !.ev = [NoSseEvent EXCEPT !.op = "get",
                                                    !.sessionId = sessionId]]
  /\ SseFrame

(* server.connect(transport) resolves: the handler logs and returns *)
ConnectResolves ==
  /\ \E id \in DOMAIN sse.sessions :
       /\ sse.sessions[id] = "connecting"
       /\ sse' = [sse EXCEPT !.sessions[id] = "connected",
                             !.ev = [NoSseEvent EXCEPT !.op = "connected",
                                                       !.sessionId = id]]
  /\ SseFrame

(* server.connect(transport) rejects: the catch block logs and answers 500 *)
ConnectRejects ==
  /\ \E id \in DOMAIN sse.sessions :
       /\ sse.sessions[id] = "connecting"
       /\ sse' = [sse EXCEPT !.sessions[id] = "failed",
                             !.ev = [NoSseEvent EXCEPT !.op = "failed",
                                                       !.sessionId = id,
                                                       !.status = 500]]
  /\ SseFrame

(* transport.onclose of a connected session: delete transports[sessionId] *)
OnClose ==
  /\ \E id \in DOMAIN sse.sessions :
       /\ sse.sessions[id] = "connected"
       /\ sse' = [sse EXCEPT !.transports = @ \ {id},
                             !.sessions[id] = "closed",
                             !.ev = [NoSseEvent EXCEPT !.op = "closed",
                                                       !.sessionId = id]]
  /\ SseFrame

(* app.post('/messages') *)
PostMessage(s, sessionId) ==
  LET e == [NoSseEvent EXCEPT !.op = "post", !.sessionId = sessionId] IN
  IF sessionId = NoSessionId THEN [s EXCEPT !.ev = [e EXCEPT !.status = 400]]
  ELSE IF sessionId \notin s.transports
       THEN [s EXCEPT !.ev = [e EXCEPT !.status = 404]]
       ELSE [s EXCEPT !.ev = [e EXCEPT !.status = 200, !.handledBy = sessionId]]

PostMessages ==
  /\ \E sessionId \in PostedIds : sse' = PostMessage(sse, sessionId)
  /\ SseFrame

NextSse ==
  \/ GetMcp \/ ConnectResolves \/ ConnectRejects \/ OnClose \/ PostMessages
SpecSse == InitSse /\ [][NextSse]_vars

(* C34: the transports table holds a session id only while that session's  *)
(* stream is being connected or is connected and not yet closed: the id of *)
(* a session whose server.connect failed is not in the table, and no POST  *)
(* /messages is handled by the transport of such a session.                *)
C34_TableHoldsLiveSessions ==
  /\ \A id \in sse.transports : sse.sessions[id] \in {"connecting", "connected"}
  /\ sse.ev.op = "post" =>
       /\ sse.ev.sessionId = NoSessionId => sse.ev.status = 400
       /\ sse.ev.handledBy # 0 =>
            /\ sse.ev.handledBy = sse.ev.sessionId
            /\ sse.sessions[sse.ev.handledBy] \in {"connecting", "connected"}

---------------------------------------------------------------------------
(* SpecRing: the page's audio ring buffer (src/unnamed/part_001 697-742).  *)
(* pushAudioSamples (called once per emulated frame) and onaudioprocess    *)
(* (the ScriptProcessorNode callback) both run on the page's one thread,   *)
(* each to completion.  The sizes are scaled down: the buffer (16384 in    *)
(* the page), the samples per frame (734) and the length of an output      *)
(* block (2048).  Sample i of frame f is the number f * SAMPLES_PER_FRAME  *)
(* + i + 1, so that every sample differs from silence (0) and from every   *)
(* other.  ring.written and ring.played are history: the samples stored    *)
(* in the buffer and the samples handed to the output, in order.           *)

AUDIO_BUF_SIZE == 6     \* scaled: 16384 in the page
SAMPLES_PER_FRAME == 4  \* scaled: 734 in the page
OutputLength == 2       \* scaled: createScriptProcessor(2048, 0, 2)
MaxFrames == 4          \* calls of pushAudioSamples

Silence == 0

NoRingEvent == [op |-> "none", out |-> << >>, buffered |-> 0, written |-> << >>]

Buffered(r) == Len(r.written) - Len(r.played)

RECURSIVE PushLoopNoCheck(_, _)
PushLoopNoCheck(r, i) ==
  IF i = SAMPLES_PER_FRAME THEN r
  ELSE LET next == (r.audioW + 1) % AUDIO_BUF_SIZE
           sample == r.frames * SAMPLES_PER_FRAME + i + 1
       IN PushLoopNoCheck([r EXCEPT !.audioBuf[r.audioW] = sample,
                                    !.audioW = next,
                                    !.written = Append(@, sample)], i + 1)

(* for (var i = 0; i < SAMPLES_PER_FRAME; i++) { ... } of pushAudioSamples *)
RECURSIVE PushLoop(_, _)
PushLoop(r, i) ==
  IF i = SAMPLES_PER_FRAME THEN r
  ELSE LET next == (r.audioW + 1) % AUDIO_BUF_SIZE
           sample == r.frames * SAMPLES_PER_FRAME + i + 1
       IN IF next = r.audioR THEN r
          ELSE PushLoop([r EXCEPT !.audioBuf[r.audioW] = sample,
                                  !.audioW = next,
                                  !.written = Append(@, sample)], i + 1)

(* pushAudioSamples() with the samples of frame r.frames *)
pushAudioSamples(r) ==
  [PushLoop(r, 0) EXCEPT
     !.frames = @ + 1,
     !.ev = [NoRingEvent EXCEPT !.op = "push", !.buffered = Buffered(r),
                                !.written = r.written]]

(* the loop of onaudioprocess over the output block *)
RECURSIVE ProcessLoop(_, _)
ProcessLoop(r, i) ==
  IF i = OutputLength THEN r
  ELSE IF r.audioR # r.audioW
       THEN ProcessLoop([r EXCEPT
                           !.ev.out = Append(@, r.audioBuf[r.audioR]),
                           !.played = Append(@, r.audioBuf[r.audioR]),
                           !.audioR = (r.audioR + 1) % AUDIO_BUF_SIZE], i + 1)
       ELSE ProcessLoop([r EXCEPT !.ev.out = Append(@, Silence)], i + 1)

(* scriptNode.onaudioprocess(e) *)
onaudioprocess(r) ==
  ProcessLoop([r EXCEPT !.ev = [NoRingEvent EXCEPT !.op = "process",
                                                   !.buffered = Buffered(r),
                                                   !.written = r.written]], 0)

InitRing ==
  /\ QuietApu("ring")
  /\ audio = "unused" /\ boot = "unused" /\ sync = "unused" /\ page = "unused"
  /\ sse = "unused"
  /\ ring = [audioBuf |-> [j \in 0..(AUDIO_BUF_SIZE - 1) |-> Silence],
             audioW |-> 0, audioR |-> 0, frames |-> 0,
             written |-> << >>, played |-> << >>, ev |-> NoRingEvent]

RingFrame == UNCHANGED <<apuVars, svc, rom, audio, boot, sync, page, sse>>

PushAudioSamples ==
  /\ ring.frames < MaxFrames
  /\ ring' = pushAudioSamples(ring)
  /\ RingFrame

OnAudioProcess ==
  /\ ring' = onaudioprocess(ring)
  /\ RingFrame

NextRing == PushAudioSamples \/ OnAudioProcess
SpecRing == InitRing /\ [][NextRing]_vars

Min(x, y) == IF x <= y THEN x ELSE y

(* C35: audioR and audioW stay in 0..AUDIO_BUF_SIZE-1; the buffer holds    *)
(* the samples written and not yet played, at most AUDIO_BUF_SIZE-1 of     *)
(* them, each still in its place from audioR on (none overwritten); the    *)
(* samples played are the samples written, in the order written, each      *)
(* once; a push writes the samples of its frame in order while there is    *)
(* room and drops the rest; an output block holds the samples that were    *)
(* buffered when the callback ran, in order, and silence exactly from the  *)
(* point where the buffer was empty.                                       *)
C35_RingBuffer ==
  /\ ring.audioR \in 0..(AUDIO_BUF_SIZE - 1)
  /\ ring.audioW \in 0..(AUDIO_BUF_SIZE - 1)
  /\ Buffered(ring) \in 0..(AUDIO_BUF_SIZE - 1)
  /\ (ring.audioR + Buffered(ring)) % AUDIO_BUF_SIZE = ring.audioW
  /\ \A k \in 1..Buffered(ring) :
       ring.audioBuf[(ring.audioR + k - 1) % AUDIO_BUF_SIZE] =
         ring.written[Len(ring.played) + k]
  /\ ring.played = SubSeq(ring.written, 1, Len(ring.played))
  /\ \A j, k \in 1..Len(ring.written) :
       j < k => ring.written[j] < ring.written[k]
  /\ ring.ev.op = "push" =>
       LET room == AUDIO_BUF_SIZE - 1 - ring.ev.buffered
           kept == Min(SAMPLES_PER_FRAME, room)
       IN ring.written =
            ring.ev.written \o
              [i \in 1..kept |-> (ring.frames - 1) * SAMPLES_PER_FRAME + i]
  /\ ring.ev.op = "process" =>
       /\ Len(ring.ev.out) = OutputLength
       /\ ring.written = ring.ev.written
       /\ \A i \in 1..OutputLength :
            ring.ev.out[i] =
              IF i <= ring.ev.buffered
              THEN ring.written[Len(ring.played) - Min(ring.ev.buffered, OutputLength) + i]
              ELSE Silence

(* Frame 1 found room for one sample and frame 2 for two, the second      *)
(* written at index 0 after the wrap; the third output block holds the     *)
(* one sample of frame 1 and the first of frame 2.                         *)
C35_Witness ==
  /\ ring.ev.op = "process" /\ ring.ev.out = <<5, 9>>
  /\ ring.written = <<1, 2, 3, 4, 5, 9, 10>>
  /\ ring.frames = 3 /\ ring.audioW = 1 /\ ring.audioR = 0

(* an output block that ran out of samples: one sample, then silence *)
C35_WitnessSilence ==
  /\ ring.ev.op = "process" /\ ring.ev.buffered = 1
  /\ ring.ev.out = <<5, 0>>

---------------------------------------------------------------------------
(* SpecIo: Apu.read and Apu.write over the register page, RAM and the boot *)
(* ROM window, with Apu.cycle() between them.                              *)

MaxIoCalls == 3         \* calls (SpecIo)

IoValues == {0, 255}
IoWriteAdrs == {240, 241, 242, 244, 248, 250, 252, 65472}
IoReadAdrs == 240..255 \cup {512, 65472, 65536 + 250}

IoCounted ==
  calls < MaxIoCalls /\ calls' = calls + 1 /\ UNCHANGED <<drv, svc, rom, webVars>>

IoCycle == IoCounted /\ Cycle
IoWrite == IoCounted /\ \E adr \in IoWriteAdrs, v \in IoValues : Write(adr, v)
IoRead == IoCounted /\ \E adr \in IoReadAdrs : Read(adr)

InitIo == InitApu /\ drv = "io"
NextIo == IoCycle \/ IoWrite \/ IoRead
SpecIo == InitIo /\ [][NextIo]_vars

WriteOnlyRegs == {240, 241, 250, 251, 252}
CounterRegs == {253, 254, 255}

TimerPortFields ==
  {"timer1int", "timer1div", "timer1target", "timer1counter", "timer1enabled",
   "timer2int", "timer2div", "timer2target", "timer2counter", "timer2enabled",
   "timer3int", "timer3div", "timer3target", "timer3counter", "timer3enabled",
   "spcWritePorts", "spcReadPorts", "dspAdr", "dspRomReadable"}

(* C36: a read at an address other than 0xFD, 0xFE, 0xFF leaves the Apu as *)
(* it was; a read of 0xF0, 0xF1, 0xFA, 0xFB or 0xFC returns 0 whatever was *)
(* written there; a write to 0xF0 changes no timer field, no port, not     *)
(* dspAdr and not dspRomReadable.                                          *)
C36_ReadsAndTestRegister ==
  /\ (last.op = "read" /\ (last.adr % 65536) \notin CounterRegs) => apu = pre
  /\ (last.op = "read" /\ (last.adr % 65536) \in WriteOnlyRegs) => last.ret = 0
  /\ (last.op = "write" /\ last.adr = 240) =>
       \A f \in TimerPortFields : apu[f] = pre[f]

(* 0xFF was written to 0xFA (timer1target) and to 0xF1 (timer 1 enabled,   *)
(* boot ROM readable); the read of 0xFA, here with address bits above 16   *)
(* set, returned 0.                                                        *)
C36_Witness ==
  /\ last.op = "read" /\ last.adr = 65536 + 250 /\ last.ret = 0
  /\ apu.timer1target = 255 /\ apu.timer1enabled /\ apu.dspRomReadable

(* a write of 0xFF to the test register after the same two writes *)
C36_WitnessTest ==
  /\ last.op = "write" /\ last.adr = 240 /\ last.value = 255
  /\ apu.timer1target = 255 /\ apu.timer1enabled

---------------------------------------------------------------------------
(* The prescalers (SpecRegs).                                              *)

C37_WitnessEnable ==
  /\ IsControlWrite(last) /\ ~pre.timer3enabled /\ apu.timer3enabled
  /\ apu.timer3int = 7

---------------------------------------------------------------------------
(* SpecQueue: the command queue under every method of the service, the     *)
(* press tool with include_screenshot (pressButtonAsync, then              *)
(* advanceFrameAndGetScreen once the call has resolved) and                *)
(* clearCommandQueue.                                                      *)

MaxQueueCalls == 1

(* the press_* tool with include_screenshot = true, up to the loop *)
PressTool ==
  /\ CanStart
  /\ \E b \in NoRomButtons, n \in NoRomDurations :
       LET r == StartBody(svc, "press", b, n, TRUE) IN
         /\ svc' = Named(r, "pressButtonAsync")
         /\ sync' = IF Threw(r) THEN sync ELSE broadcastButtonPress(sync, b, n)
  /\ NoRomFrame

(* the press_* tool after the await: advanceFrameAndGetScreen() *)
ToolAdvance ==
  /\ svc.running # 0
  /\ LET i == svc.running
         c == svc.inflight[i]
     IN /\ c.pc = "resolved"
        /\ LET d == [svc EXCEPT !.inflight = Without(@, i), !.running = 0]
           IN svc' = [advanceFrameAndGetScreen(Overlapped(d)) EXCEPT
                        !.ev = [op |-> "screenshot", id |-> i, call |-> c]]
  /\ sync' = broadcastAdvanceFrame(sync)
  /\ NoRomFrame

(* clearCommandQueue() *)
ClearCommandQueue ==
  /\ Idle
  /\ svc' = [svc EXCEPT !.commandQueue = << >>,
                        !.ev = [NoEvent EXCEPT !.op = "cleared"]]
  /\ UNCHANGED sync
  /\ NoRomFrame

NextQueue ==
  \/ LoadRomSync \/ PressButton \/ PressButtonLocal \/ PressButtonAsync
  \/ WaitFramesAsync \/ WaitFrames \/ AdvanceFrame \/ GetScreen
  \/ SaveStateCall \/ LoadStateCall \/ RamRead
  \/ Chunk \/ Resume \/ Resolve
  \/ PressTool \/ ToolAdvance \/ ClearCommandQueue
(* The service after construction, as in InitNoRom; one loadRom call. *)
InitQueue ==
  /\ apu = Reset /\ slots = << >> /\ savedAt = << >> /\ pre = Reset
  /\ last = NoCall /\ calls = 0
  /\ drv = [limit |-> MaxQueueCalls, loads |-> 1, stateLoads |-> 1]
  /\ rom = "unused"
  /\ audio = "unused" /\ boot = "unused" /\ page = "unused" /\ NoPage
  /\ svc = InitService
  /\ sync = [clients |-> [c \in ClientIds |->
                            [readyState |-> IF c = 1 THEN "OPEN" ELSE "CONNECTING",
                             sent |-> << >>]],
             hasService |-> TRUE, romLoaded |-> FALSE, replays |-> 0,
             handled |-> 0, lastBroadcastCommandId |-> 0,
             ev |-> NoSyncEvent]
SpecQueue == InitQueue /\ [][NextQueue]_vars

QueueEntry(call) ==
  [type |-> IF call.op = "press" THEN "button_press" ELSE "wait_frames",
   button |-> call.button, durationFrames |-> call.durationFrames]
OneFrameWait == [type |-> "wait_frames", button |-> "none", durationFrames |-> 1]

QueueStep ==
  LET q == svc.commandQueue
      n == svc'.commandQueue
      e == svc'.ev
  IN CASE e.op = "start" -> n = Append(q, QueueEntry(e.call))
       [] e.op = "screenshot" /\ e.call.op = "advanceFrameAndGetScreen" ->
            n = Append(q, OneFrameWait)
       [] e.op = "screenshot" /\ e.call.pc = "resolved" ->
            n = Append(q, OneFrameWait)
       [] e.op = "cleared" -> n = << >>
       [] OTHER -> n = q

===========================================================================
